---- MODULE Spec2Model ----
(***************************************************************************)
(* State-machine model of the stream server:                               *)
(*   - CircularVideoBuffer and VideoRecorder   (src/video_recorder.py)     *)
(*   - EventDatabase.add_event                 (src/database.py)           *)
(*   - MotionDetector                          (src/motion_detector.py)    *)
(*   - H264StreamOutput, RTSPSession, RTSPHandler (src/streamserver.py)    *)
(*   - run_stream_server, StreamMonitor, RTSPServer (src/streamserver.py)  *)
(* Each subsystem has its own specification (SpecBuf, SpecRec, SpecDet,    *)
(* SpecHub, SpecRtsp, SpecSup); SpecRecLive is SpecRec with frames that    *)
(* keep arriving, SpecRace has two threads inside start_recording, SpecNal *)
(* is H264StreamOutput.write at the level of bytes, SpecLong one session   *)
(* over a long stream, SpecMal a connection that receives malformed        *)
(* requests, SpecStall the supervisor with a producer that stops           *)
(* publishing, SpecDrop an attempt with its RTSP clients and its teardown; *)
(* the variables of the other subsystems stay at their initial values.     *)
(***************************************************************************)
EXTENDS Integers, Sequences, FiniteSets, TLC

(***************************************************************************)
(* Bounds of the model and configuration values.                           *)
(***************************************************************************)
\* VideoConfig.fps, pre_buffer_duration, post_motion_duration: configurable;
\* small values keep the state space finite.
Fps == 1
PreBufferDuration == 2
PostMotionDuration == 2
\* Number of real frames the environment produces.
MaxFrameId == 6
\* Length of the motion burst of the end-to-end scenario (frames 0..BurstLen-1).
BurstLen == 2
\* Number of recording sessions that are started.
MaxSessions == 2
\* Wall clock range in seconds (file names have one-second resolution).
MaxTime == 1

\* Contours findContours returns for one frame, at most.
MaxContours == 2
\* Range of the clock the detector reads.
MaxDetTime == 2

\* NAL units the encoder hands to H264StreamOutput.write.
MaxUnits == 2
\* RTSPSession objects created by SETUP requests.
MaxRtspSessions == 2
\* Entries of H264StreamOutput.clients (a session is appended on every PLAY).
MaxClients == 2
\* Calls of sendto that raise.
MaxSendFailures == 1
\* Bytes of H.264 stream given to write, in all; bytes of one call.
MaxStream == 15
MaxChunk == 2
\* Requests the client of the connection looked at in detail sends.
MaxRequests == 3
\* Lines one recv returns, at most (a request has at most 4).
MaxRequestLines == 5
\* Pipeline attempts run_stream_server is followed through.
MaxAttempts == 11
\* Camera handles open at the same time.
MaxOpenCameras == 1

\* "frame is None"
Null == 0

\* MotionConfig.min_area
min_area == 5000

\* RTSPSession.send_h264_data: the sequence number is kept modulo 65536 and
\* the timestamp advances by 3600 per datagram (90 kHz clock, 25 fps).
SeqModulus == 65536
TimestampTick == 3600
\* struct.pack('!BBHII', ...): the timestamp field is an unsigned 32-bit int;
\* 1193046 is the largest k with 3600 * k < 2^32.
MaxTimestampTicks == 1193046
\* RTSPHandler._handle_setup: default client RTP and RTCP ports.
DefaultRtpPort == 5004
DefaultRtcpPort == 5005

\* RTSPSession._create_rtp_packet: the fixed fields of the RTP header.
version == 2
padding == 0
extension == 0
cc == 0
marker == 1
payload_type == 96

\* run_stream_server and StreamMonitor._monitor_loop
max_restarts == 10
max_camera_retries == 3
max_streaming_retries == 3
max_consecutive_failures == 3

VARIABLES
    \* ---- CircularVideoBuffer
    buffer,                 \* deque(maxlen=max_frames) of frames, oldest first
    snapshot,               \* the list get_prebuffer_frames returned last
    \* ---- VideoRecorder
    is_recording,
    current_writer,         \* NoWriter, or the cv2.VideoWriter held
    current_filename,       \* <<>> is None, <<t>> is motion_<t>.mp4
    recording_start_time,   \* <<>> is None, <<t>>
    post_motion_frames,
    \* ---- EventDatabase
    events,                 \* rows of table Events, in insertion order
    \* ---- environment
    now,                    \* wall clock (seconds) as start_recording read it last
    nextFrame,              \* id of the next real frame given to the buffer
    \* ---- MotionDetector
    bg_subtractor,          \* the background model: the scene it has learned
    last_motion_time,
    detNow,                 \* wall clock as detect_motion read it last
    detIn,                  \* the frame detect_motion was called with last
    detFg,                  \* the contour areas findContours found in that call
    detRet,                 \* what that call returned: <<flag, boxes>>
    \* ---- H264StreamOutput
    clients,                \* list of registered sessions (ids), in add order
    condition,              \* who holds the Condition lock: "free", "producer"
    sps,                    \* cached SPS unit, NoUnit is None
    pps,                    \* cached PPS unit, NoUnit is None
    \* ---- RTSPSession objects, RTSPHandler threads, the encoder thread
    sessions,               \* every RTSPSession created, by id 1..
    handlers,               \* per connection: position, self.session, response
    producer,               \* the thread in write/_handle_nal_unit
    \* ---- one RTSP connection in detail (handle_request of its handler)
    stream,                 \* lines the client has sent that recv has not returned
    cseq,                   \* RTSPHandler.cseq
    response,               \* the response the handler sent last
    \* ---- run_stream_server, StreamMonitor, RTSPServer
    supervisor,             \* position and locals of run_stream_server
    restart_requested,      \* the Event request_restart sets
    camera,                 \* Picamera2 handles open; whether one records
    server,                 \* the RTSPServer of the attempt and its thread
    monitor,                \* the StreamMonitor of the attempt
    stale,                  \* the StreamMonitor of the attempt before
    \* ---- threads calling VideoRecorder.start_recording
    callers,                \* per thread: position in start_recording, locals
    \* ---- one RTSPSession followed over a long stream
    long_session,           \* units sent, sequence number, registration
    \* ---- H264StreamOutput.write at the level of bytes
    h264_buffer,            \* self.buffer: bytes not yet cut into units
    \* ---- last call
    op,                     \* name of the last operation called
    ret,                    \* its return value
    \* ---- history (not program state)
    added,                  \* frames appended to the buffer since the last clear
    sess,                   \* the current or last recording session
    finalized,              \* stop_recording calls that ran to the end
    sent,                   \* per session: the RTP datagrams handed to sendto
    torn,                   \* <<connection, port>> whose TEARDOWN was answered
    dropped,                \* sessions _handle_nal_unit removed after a failure
    failures,               \* calls of sendto that raised
    requests,               \* number of requests the client has sent
    replies,                \* the CSeq of every response sent, in order
    fed,                    \* every byte write was given, in order
    dispatched,             \* the units handed to _handle_nal_unit, in order
    \* ---- H264StreamOutput of an attempt (last_frame_time)
    stalled                 \* the attempt whose producer stopped publishing

bufVars == <<buffer, snapshot, nextFrame, added>>

recVars == <<is_recording, current_writer, current_filename,
             recording_start_time, post_motion_frames, events, now, sess,
             finalized>>

detVars == <<bg_subtractor, last_motion_time, detNow, detIn, detFg, detRet>>

hubVars == <<clients, condition, sps, pps, sessions, handlers, producer,
             sent, torn, dropped, failures>>

rtspVars == <<stream, cseq, response, requests, replies>>

supVars == <<supervisor, restart_requested, camera, server, monitor, stale>>

raceVars == <<callers>>

nalVars == <<h264_buffer, fed, dispatched>>

longVars == <<long_session>>

stallVars == <<stalled>>

vars == <<bufVars, recVars, detVars, hubVars, rtspVars, supVars, raceVars, nalVars, longVars, stallVars, op, ret>>

(***************************************************************************)
(* CircularVideoBuffer                                                     *)
(***************************************************************************)
\* self.max_frames = int(config.pre_buffer_duration * config.fps)
max_frames == PreBufferDuration * Fps

\* deque.append on a deque with maxlen: drops from the left when full.
DequeAppendNoEvict(q, x, maxlen) == Append(q, x)

DequeAppend(q, x, maxlen) ==
    IF maxlen = 0 THEN q
    ELSE IF Len(q) < maxlen THEN Append(q, x)
    ELSE Append(Tail(q), x)

\* get_prebuffer_frames: list(self.buffer), a new list
get_prebuffer_frames == buffer

\* The frame add_frame is called with: None or the next camera frame.
FrameInputs == {Null} \cup (IF nextFrame <= MaxFrameId THEN {nextFrame} ELSE {})

BufferAddFrame(frame) ==
    /\ buffer' = IF frame # Null THEN DequeAppend(buffer, frame, max_frames)
                 ELSE buffer
    /\ added' = IF frame # Null THEN Append(added, frame) ELSE added
    /\ nextFrame' = IF frame # Null THEN nextFrame + 1 ELSE nextFrame
    /\ op' = "buffer.add_frame"
    /\ UNCHANGED <<snapshot, recVars, detVars, hubVars, rtspVars, supVars, raceVars, nalVars, longVars, stallVars, ret>>

\* clear, had get_prebuffer_frames handed out the deque itself
BufferClearShared ==
    /\ buffer' = <<>>
    /\ snapshot' = <<>>
    /\ added' = <<>>
    /\ op' = "buffer.clear"
    /\ UNCHANGED <<nextFrame, recVars, detVars, hubVars, rtspVars, supVars, raceVars, nalVars, longVars, stallVars, ret>>

BufferClear ==
    /\ buffer' = <<>>
    /\ added' = <<>>
    /\ op' = "buffer.clear"
    /\ UNCHANGED <<snapshot, nextFrame, recVars, detVars, hubVars, rtspVars, supVars, raceVars, nalVars, longVars, stallVars, ret>>

BufferGetPrebufferFrames ==
    /\ snapshot' = get_prebuffer_frames
    /\ op' = "buffer.get_prebuffer_frames"
    /\ UNCHANGED <<buffer, nextFrame, added, recVars, detVars, hubVars, rtspVars, supVars, raceVars, nalVars, longVars, stallVars, ret>>

\* is_full
is_full == Len(buffer) = max_frames

(***************************************************************************)
(* VideoRecorder                                                           *)
(***************************************************************************)
\* self.current_writer = None
NoWriter == [held |-> FALSE, opened |-> FALSE, written |-> <<>>]

\* max_post_frames = int(self.post_motion_duration * self.fps)
max_post_frames == PostMotionDuration * Fps

NonNull(frames) == SelectSeq(frames, LAMBDA f : f # Null)

\* History record of a session; no is 0 before the first successful start.
\*   motion: motion-present frames fed to the session, the triggering frame
\*           (frame 0, on which start_recording is called) included
\*   quiet:  motion-absent frames fed after them
\*   plain:  TRUE while the frames fed are real, written without error, and
\*           motion has not come back after a motion-absent frame
\*   end:    "running", or how the session left Recording
NoSession == [no |-> 0, motion |-> 0, quiet |-> 0, plain |-> TRUE, end |-> "none"]

\* What the environment decides in start_recording:
\*   ok          the writer opens and every pre-roll frame is written
\*   notopened   isOpened() is False
\*   raise_open  VideoWriter_fourcc or the VideoWriter constructor raises
\*   raise_write write() of a pre-roll frame raises
StartOutcomes == {"ok", "notopened", "raise_open", "raise_write"}

\* What the environment decides in stop_recording: whether the file exists
\* after release, and how add_event ends:
\*   inserted  the row is committed, add_event returns True
\*   failed    add_event returns False (file gone at its own exists() check,
\*             or sqlite3.Error)
\*   raise     an exception other than sqlite3.Error leaves add_event
\*             (os.path.getsize on a file removed meanwhile)
StopInputs == {<<TRUE, "inserted">>, <<TRUE, "failed">>, <<TRUE, "raise">>,
               <<FALSE, "notcalled">>}

\* _cleanup_recording: release the writer if one is held, then None.
cleanup_recording(w) == NoWriter

\* start_recording line 104: "if self.is_recording: return False"
StartRejectedNever == FALSE

StartRejected == is_recording

\* EventDatabase.add_event, on a file that stop_recording saw on disk.
add_event(rows, path, session, db) ==
    IF db = "inserted" THEN Append(rows, [path |-> path, session |-> session])
    ELSE rows

\* stop_recording line 184: "if self.current_filename and os.path.exists(...)"
ShouldAddEventInverted(exists) == current_filename # <<>> /\ ~exists

ShouldAddEvent(exists) == current_filename # <<>> /\ exists

\* stop_recording reaches "return True" unless add_event raises.
StopCompletes(exists, db) == ~(ShouldAddEvent(exists) /\ db = "raise")

\* The body of stop_recording once is_recording is known to be True.
\* pmf is post_motion_frames at the call, s the session history, cause the
\* caller ("stopped": stop_recording called directly, "countdown": add_frame).
StopBody(pmf, s, exists, db, cause) ==
    /\ current_writer' = cleanup_recording(current_writer)
    /\ IF StopCompletes(exists, db)
       THEN /\ events' = IF ShouldAddEvent(exists)
                         THEN add_event(events, current_filename, s.no, db)
                         ELSE events
            /\ is_recording' = FALSE
            /\ current_filename' = <<>>
            /\ recording_start_time' = <<>>
            /\ post_motion_frames' = 0
            /\ finalized' = Append(finalized,
                                   [session |-> s.no, exists |-> exists, db |-> db])
            /\ sess' = [s EXCEPT !.end = cause]
       ELSE /\ post_motion_frames' = pmf
            /\ sess' = [s EXCEPT !.end = "stuck"]
            /\ UNCHANGED <<events, is_recording, current_filename,
                           recording_start_time, finalized>>

\* start_recording(prebuffer_frames, frame_size); dt is the time that has
\* passed since start_recording read the clock last, outcome what the
\* environment decides.
RecStartRecording(prebuffer, outcome, dt) ==
    /\ op' = "start_recording"
    /\ IF StartRejected
       THEN /\ ret' = FALSE
            /\ UNCHANGED <<current_writer, current_filename, is_recording,
                           recording_start_time, post_motion_frames, sess, now>>
       ELSE /\ outcome = "ok" => sess.no < MaxSessions
            /\ outcome = "raise_write" => NonNull(prebuffer) # <<>>
            /\ now + dt <= MaxTime
            /\ now' = now + dt
            /\ current_filename' = <<now'>>
            /\ CASE outcome = "ok" ->
                      /\ current_writer' = [held |-> TRUE, opened |-> TRUE,
                                            written |-> NonNull(prebuffer)]
                      /\ is_recording' = TRUE
                      /\ recording_start_time' = <<now'>>
                      /\ post_motion_frames' = 0
                      /\ sess' = [no |-> sess.no + 1, motion |-> 1, quiet |-> 0,
                                  plain |-> TRUE, end |-> "running"]
                      /\ ret' = TRUE
                 [] outcome = "notopened" ->
                      /\ current_writer' = [held |-> TRUE, opened |-> FALSE,
                                            written |-> <<>>]
                      /\ ret' = FALSE
                      /\ UNCHANGED <<is_recording, recording_start_time,
                                     post_motion_frames, sess>>
                 [] outcome \in {"raise_open", "raise_write"} ->
                      /\ current_writer' = cleanup_recording(current_writer)
                      /\ ret' = FALSE
                      /\ UNCHANGED <<is_recording, recording_start_time,
                                     post_motion_frames, sess>>
    /\ UNCHANGED <<bufVars, detVars, hubVars, rtspVars, supVars, raceVars, nalVars, longVars, stallVars, events, finalized>>

\* add_frame(frame); motion is what the detector said of this frame (the
\* recorder is not told), writeOk whether VideoWriter.write returns normally.
RecAddFrame(frame, motion, writeOk, exists, db) ==
    /\ op' = "add_frame"
    /\ IF ~is_recording \/ ~current_writer.held
       THEN /\ ret' = FALSE
            /\ UNCHANGED <<current_writer, current_filename, is_recording,
                           recording_start_time, post_motion_frames, events,
                           sess, finalized>>
       ELSE IF frame # Null /\ ~writeOk
       THEN /\ ret' = FALSE
            /\ sess' = [sess EXCEPT !.plain = FALSE]
            /\ UNCHANGED <<current_writer, current_filename, is_recording,
                           recording_start_time, post_motion_frames, events,
                           finalized>>
       ELSE LET pmf == IF frame # Null THEN post_motion_frames + 1
                       ELSE post_motion_frames
                s   == IF frame = Null THEN sess
                       ELSE IF motion
                       THEN [sess EXCEPT !.motion = @ + 1,
                                         !.plain = @ /\ sess.quiet = 0]
                       ELSE [sess EXCEPT !.quiet = @ + 1]
            IN  IF pmf >= max_post_frames
                THEN /\ StopBody(pmf, s, exists, db, "countdown")
                     /\ ret' = FALSE
                ELSE /\ current_writer' =
                            IF frame # Null
                            THEN [current_writer EXCEPT !.written = Append(@, frame)]
                            ELSE current_writer
                     /\ post_motion_frames' = pmf
                     /\ sess' = s
                     /\ ret' = TRUE
                     /\ UNCHANGED <<current_filename, is_recording,
                                    recording_start_time, events, finalized>>
    /\ UNCHANGED <<bufVars, detVars, hubVars, rtspVars, supVars, raceVars, nalVars, longVars, stallVars, now>>

RecStopRecording(exists, db) ==
    /\ op' = "stop_recording"
    /\ IF ~is_recording
       THEN /\ ret' = FALSE
            /\ UNCHANGED <<current_writer, current_filename, is_recording,
                           recording_start_time, post_motion_frames, events,
                           sess, finalized>>
       ELSE /\ StopBody(post_motion_frames, sess, exists, db, "stopped")
            /\ ret' = StopCompletes(exists, db)
    /\ UNCHANGED <<bufVars, detVars, hubVars, rtspVars, supVars, raceVars, nalVars, longVars, stallVars, now>>

RecForceStop ==
    /\ op' = "force_stop"
    /\ IF is_recording
       THEN /\ current_writer' = cleanup_recording(current_writer)
            /\ is_recording' = FALSE
            /\ current_filename' = <<>>
            /\ recording_start_time' = <<>>
            /\ post_motion_frames' = 0
            /\ sess' = [sess EXCEPT !.end = "forced"]
       ELSE UNCHANGED <<current_writer, current_filename, is_recording,
                        recording_start_time, post_motion_frames, sess>>
    /\ UNCHANGED <<bufVars, detVars, hubVars, rtspVars, supVars, raceVars, nalVars, longVars, stallVars, events, now, ret, finalized>>

(***************************************************************************)
(* MotionDetector                                                          *)
(***************************************************************************)
\* A frame is the scene it shows: the areas of the objects in it, in the
\* order findContours reports them.  NoFrame is None.
NoFrame == [valid |-> FALSE, areas |-> <<>>]

ContourAreas == {min_area - 1, min_area, min_area + 1}

DetFrames ==
    {[valid |-> TRUE, areas |-> a] :
        a \in UNION {[1..n -> ContourAreas] : n \in 0..MaxContours}}

\* cv2.createBackgroundSubtractorMOG2: nothing learned yet.
EmptyBackground == <<>>

\* bg_subtractor.apply, morphologyEx, findContours: the contours of the
\* foreground, a function of the background model and the frame.  A scene
\* the model has learned is background.
FindContours(bg, frame) == IF frame.areas = bg THEN <<>> ELSE frame.areas

\* bg_subtractor.apply updates the model with the frame.
Learn(bg, frame) == frame.areas

\* line 63: "if cv2.contourArea(contour) > self.min_area"
LargeEnoughInclusive(area) == area >= min_area

LargeEnough(area) == area > min_area

\* lines 59-67: the bounding boxes of the contours that count as motion; the
\* box of contour i is i.
RECURSIVE MotionBoxes(_, _)
MotionBoxes(contours, i) ==
    IF i > Len(contours) THEN <<>>
    ELSE (IF LargeEnough(contours[i]) THEN <<i>> ELSE <<>>)
         \o MotionBoxes(contours, i + 1)

\* lines 43-44: "if frame is None: return False, []"; st is the detector's
\* state.  The result holds the state after the call and the value returned.
NullFrameResultForgets(st) ==
    [bg |-> EmptyBackground, lmt |-> st.lmt, flag |-> FALSE, boxes |-> <<>>]

NullFrameResult(st) ==
    [bg |-> st.bg, lmt |-> st.lmt, flag |-> FALSE, boxes |-> <<>>]

\* What the environment decides in detect_motion on a frame:
\*   ok           no cv2 call raises
\*   raise_apply  bg_subtractor.apply raises, the model is not updated
\*   raise_later  a later cv2 call raises, the model is updated
DetOutcomes == {"ok", "raise_apply", "raise_later"}

\* detect_motion(frame) in state st, the clock reading t.
detect_motion(frame, st, outcome, t) ==
    IF frame = NoFrame THEN NullFrameResult(st)
    ELSE IF outcome = "raise_apply"
    THEN [bg |-> st.bg, lmt |-> st.lmt, flag |-> FALSE, boxes |-> <<>>]
    ELSE IF outcome = "raise_later"
    THEN [bg |-> Learn(st.bg, frame), lmt |-> st.lmt, flag |-> FALSE,
          boxes |-> <<>>]
    ELSE LET boxes == MotionBoxes(FindContours(st.bg, frame), 1)
             motion_detected == boxes # <<>>
         IN  [bg |-> Learn(st.bg, frame),
              lmt |-> IF motion_detected THEN t ELSE st.lmt,
              flag |-> motion_detected,
              boxes |-> boxes]

DetDetectMotion(frame, outcome, dt) ==
    /\ detNow + dt <= MaxDetTime
    /\ LET r == detect_motion(frame,
                              [bg |-> bg_subtractor, lmt |-> last_motion_time],
                              outcome, detNow + dt)
       IN  /\ bg_subtractor' = r.bg
           /\ last_motion_time' = r.lmt
           /\ detRet' = <<r.flag, r.boxes>>
    /\ detNow' = detNow + dt
    /\ detIn' = frame
    /\ detFg' = IF frame # NoFrame /\ outcome = "ok"
                THEN FindContours(bg_subtractor, frame) ELSE <<>>
    /\ op' = "detect_motion"
    /\ UNCHANGED <<bufVars, recVars, hubVars, rtspVars, supVars, raceVars, nalVars, longVars, stallVars, ret>>

DetInit ==
    /\ bg_subtractor = EmptyBackground
    /\ last_motion_time = 0
    /\ detNow = 1
    /\ detIn = NoFrame
    /\ detFg = <<>>
    /\ detRet = <<FALSE, <<>>>>

DetNext ==
    \E f \in DetFrames \cup {NoFrame}, o \in DetOutcomes, dt \in 0..1 :
        /\ f = NoFrame => o = "ok"
        /\ DetDetectMotion(f, o, dt)

(***************************************************************************)
(* H264StreamOutput, RTSPSession, RTSPHandler   (src/streamserver.py)      *)
(*                                                                         *)
(* Threads: one RTSPHandler per connection and the encoder thread that     *)
(* calls write.  Code that runs inside "with self.condition" of a handler  *)
(* is one step, taken while the lock is free; the producer's loop over the *)
(* clients is one step per client, with the lock held from ProdLock to     *)
(* ProdRelease.  TEARDOWN's is_playing = False and the caching of sps and  *)
(* pps happen before the lock is taken and are steps of their own.         *)
(***************************************************************************)
\* The connections (each has its own peer address).
Conns == {"c1", "c2"}

\* nal_unit[0] & 0x1f of the n-th unit of the stream: the encoder starts
\* with an SPS (7) and a PPS (8); 5 stands for every other type.
NalType(n) == IF n = 1 THEN 7 ELSE IF n = 2 THEN 8 ELSE 5

\* sps / pps = None
NoUnit == [id |-> 0, type |-> 0]

\* The value of a Transport header: whether it holds "client_port=", and the
\* numbers of the port part (what stands between "client_port=" and the next
\* ";"), which "-" separates.  NoTransport is the header left out.
NoTransport == [client_port |-> FALSE, part |-> <<>>, numeric |-> TRUE]

ParseClientPortNoRange(transport) ==
    IF transport.client_port
    THEN <<transport.part[1], transport.part[1] + 1>>
    ELSE <<DefaultRtpPort, DefaultRtcpPort>>

\* _handle_setup lines 439-449: the pair (rtp_port, rtcp_port).
ParseClientPort(transport) ==
    IF transport.client_port
    THEN IF Len(transport.part) > 1
         THEN <<transport.part[1], transport.part[2]>>
         ELSE <<transport.part[1], transport.part[1] + 1>>
    ELSE <<DefaultRtpPort, DefaultRtcpPort>>

\* The Transport headers of the SETUP requests when two connections share
\* the hub: every client leaves client_port out.
HubTransports == {NoTransport}


\* The two random draws of RTSPSession.__init__, <<sequence_number, ssrc>>:
\* randint(0, 65535) gives an end of its range, randint(0, 0xFFFFFFFF) one
\* of two values.
SessionDraws == {<<0, 305419896>>, <<SeqModulus - 1, 2023406814>>}

\* The draws on the connection looked at in detail, where socket.socket()
\* does not raise.
RtspSessionDraws == {<<SeqModulus - 1, 2023406814>>}
RtspSetupOutcomes == {"ok"}

\* socket.socket() of _handle_setup: both sockets created, or the first
\* call raises (both sockets stay None).
SetupOutcomes == {"ok", "fail_rtp"}

NoHandlerSession == 0

InSeq(x, q) == \E i \in 1..Len(q) : q[i] = x

\* list.remove(x) guarded by "if x in list": drops the first occurrence.
RemoveFirst(q, x) ==
    IF ~InSeq(x, q) THEN q
    ELSE LET i == CHOOSE k \in 1..Len(q) :
                      q[k] = x /\ \A j \in 1..(k - 1) : q[j] # x
         IN  SubSeq(q, 1, i - 1) \o SubSeq(q, i + 1, Len(q))

\* _handle_nal_unit, "for client in clients_to_remove: if client in
\* self.clients: self.clients.remove(client)".
RECURSIVE RemoveDisconnected(_, _)
RemoveDisconnected(q, rm) ==
    IF rm = <<>> THEN q
    ELSE RemoveDisconnected(RemoveFirst(q, Head(rm)), Tail(rm))

\* RTSPSession.__init__ followed by the assignments of _handle_setup.
NewSession(h, ports, seq0, ssrc, outcome) ==
    [conn            |-> h,
     rtp_port        |-> ports[1],
     rtcp_port       |-> ports[2],
     ssrc            |-> ssrc,
     rtp_socket      |-> outcome = "ok",
     rtcp_socket     |-> outcome = "ok",
     sequence_number |-> seq0,
     timestamp       |-> 0,
     is_playing      |-> FALSE,
     played          |-> FALSE]      \* history: PLAY was handled for it

\* Without the modulo.
NextSequenceNumberNoWrap(n) == n + 1

\* self.sequence_number = (self.sequence_number + 1) % 65536
NextSequenceNumber(n) == (n + 1) % SeqModulus

\* _create_rtp_packet: struct.pack raises when the timestamp no longer fits.
\* k ticks of 3600 fit the unsigned 32-bit field of struct.pack.
TicksFit(k) == k <= MaxTimestampTicks

HeaderPacks(s) == TicksFit(s.timestamp \div TimestampTick)

\* One call of send_h264_data on session s; ok says whether sendto works.
\*   "skip"  returned silently: not playing, or no socket
\*   "sent"  the datagram was handed to sendto and the counters advanced
\*   "raise" struct.pack or sendto raised: nothing sent, counters unchanged
SendResult(s, ok) ==
    IF ~s.is_playing \/ ~s.rtp_socket THEN "skip"
    ELSE IF HeaderPacks(s) /\ ok THEN "sent"
    ELSE "raise"

\* struct.pack('!BBHII', ...): the sizes of the five fields, and the two
\* bytes built from the fixed fields.
RtpHeaderLen == 1 + 1 + 2 + 4 + 4
RtpByte0 == version * 64 + padding * 32 + extension * 16 + cc
RtpByte1 == marker * 128 + payload_type

\* The datagram sendto is given: header fields, payload and destination;
\* via tells the caller, "publish" (_handle_nal_unit) or "replay"
\* (add_client).
Datagram(s, unit, via) ==
    [conn |-> s.conn, port |-> s.rtp_port,
     hlen |-> RtpHeaderLen, b0 |-> RtpByte0, b1 |-> RtpByte1,
     seq |-> s.sequence_number, ts |-> s.timestamp, ssrc |-> s.ssrc,
     payload |-> unit, via |-> via]

AfterSendNewSsrc(s) ==
    [s EXCEPT !.sequence_number = NextSequenceNumber(@),
              !.timestamp = @ + TimestampTick,
              !.ssrc = (@ + 1) % SeqModulus]

\* send_h264_data after sendto: the sequence number and the timestamp
\* advance; nothing else of the session is written.
AfterSend(s) ==
    [s EXCEPT !.sequence_number = NextSequenceNumber(@),
              !.timestamp = @ + TimestampTick]

\* The session and its datagram log after send_h264_data(unit) with result r.
SessionAfter(s, r) == IF r = "sent" THEN AfterSend(s) ELSE s

\* Calls of sendto that raised, among the results rs.
Raised(rs) == Cardinality({i \in 1..Len(rs) : rs[i] = "raise"})

LogAfter(log, s, unit, via, r) ==
    IF r = "sent" THEN Append(log, Datagram(s, unit, via)) ELSE log

\* ---- RTSPHandler ---------------------------------------------------------
\* SETUP: a new RTSPSession replaces self.session; 500 when a socket cannot
\* be created (the session object is kept), else 200.
HSetup(h, transport, seq0, ssrc, outcome) ==
    /\ handlers[h].pc = "recv"
    /\ Len(sessions) < MaxRtspSessions
    /\ sessions' = Append(sessions,
                          NewSession(h, ParseClientPort(transport), seq0,
                                     ssrc, outcome))
    /\ sent' = Append(sent, <<>>)
    /\ handlers' = [handlers EXCEPT ![h].session = Len(sessions) + 1,
                                    ![h].resp = IF outcome = "ok" THEN 200
                                                ELSE 500]
    /\ UNCHANGED <<clients, condition, sps, pps, producer, torn,
                   dropped, failures, bufVars, recVars, detVars, op, ret>>

\* PLAY: 455 without a session; else is_playing = True, add_client and
\* the 200 response.  add_client, under the lock, appends the session and,
\* when both parameter sets are cached, sends them to it inside one try (a
\* failure of the first skips the second; errors are swallowed).
HPlay(h, ok1, ok2) ==
    /\ handlers[h].pc = "recv"
    /\ IF handlers[h].session = NoHandlerSession
       THEN /\ handlers' = [handlers EXCEPT ![h].resp = 455]
            /\ UNCHANGED <<clients, sessions, sent, failures>>
       ELSE /\ condition = "free"
            /\ Len(clients) < MaxClients
            /\ LET id     == handlers[h].session
                   s0     == [sessions[id] EXCEPT !.is_playing = TRUE,
                                                  !.played = TRUE]
                   replay == sps # NoUnit /\ pps # NoUnit
                   r1     == IF replay THEN SendResult(s0, ok1) ELSE "skip"
                   s1     == SessionAfter(s0, r1)
                   l1     == LogAfter(sent[id], s0, sps, "replay", r1)
                   r2     == IF replay /\ r1 # "raise"
                             THEN SendResult(s1, ok2) ELSE "skip"
               IN  /\ failures + Raised(<<r1, r2>>) <= MaxSendFailures
                   /\ failures' = failures + Raised(<<r1, r2>>)
                   /\ clients' = Append(clients, id)
                   /\ sessions' = [sessions EXCEPT
                                     ![id] = SessionAfter(s1, r2)]
                   /\ sent' = [sent EXCEPT
                                 ![id] = LogAfter(l1, s1, pps, "replay", r2)]
            /\ handlers' = [handlers EXCEPT ![h].resp = 200]
    /\ UNCHANGED <<condition, sps, pps, producer, torn, dropped,
                   bufVars, recVars, detVars, op, ret>>

\* TEARDOWN up to the call of remove_client: is_playing = False (set
\* without the lock); without a session only the 200 response.
HTeardown(h) ==
    /\ handlers[h].pc = "recv"
    /\ IF handlers[h].session = NoHandlerSession
       THEN /\ handlers' = [handlers EXCEPT ![h].pc = "cleanup",
                                            ![h].resp = 200]
            /\ UNCHANGED sessions
       ELSE /\ sessions' = [sessions EXCEPT
                              ![handlers[h].session].is_playing = FALSE]
            /\ handlers' = [handlers EXCEPT ![h].pc = "td_remove"]
    /\ UNCHANGED <<clients, condition, sps, pps, producer, sent, torn,
                   dropped, failures, bufVars, recVars, detVars, op, ret>>

\* remove_client under the lock, then the 200 response; handle_request
\* leaves its loop.
HTeardownRemove(h) ==
    /\ handlers[h].pc = "td_remove"
    /\ condition = "free"
    /\ LET id == handlers[h].session
       IN  /\ clients' = RemoveFirst(clients, id)
           /\ torn' = IF sessions[id].played
                      THEN torn \cup {<<h, sessions[id].rtp_port>>}
                      ELSE torn
    /\ handlers' = [handlers EXCEPT ![h].pc = "cleanup", ![h].resp = 200]
    /\ UNCHANGED <<condition, sps, pps, sessions, producer, sent, dropped,
                   failures, bufVars, recVars, detVars, op, ret>>

\* _cleanup: remove_client(self.session) under the lock and
\* self.session.close(), which closes and clears both UDP sockets.
Cleanup(h) ==
    /\ handlers' = [handlers EXCEPT ![h].pc = "closed"]
    /\ IF handlers[h].session = NoHandlerSession
       THEN UNCHANGED <<clients, sessions>>
       ELSE /\ condition = "free"
            /\ clients' = RemoveFirst(clients, handlers[h].session)
            /\ sessions' = [sessions EXCEPT
                              ![handlers[h].session].rtp_socket = FALSE,
                              ![handlers[h].session].rtcp_socket = FALSE]

\* recv returns no data, or raises: handle_request leaves its loop and
\* runs _cleanup.
HDisconnect(h) ==
    /\ handlers[h].pc = "recv"
    /\ Cleanup(h)
    /\ UNCHANGED <<condition, sps, pps, producer, sent, torn, dropped,
                   failures, bufVars, recVars, detVars, op, ret>>

\* _cleanup after TEARDOWN was answered.
HCleanup(h) ==
    /\ handlers[h].pc = "cleanup"
    /\ Cleanup(h)
    /\ UNCHANGED <<condition, sps, pps, producer, sent, torn, dropped,
                   failures, bufVars, recVars, detVars, op, ret>>

\* ---- the encoder thread: _handle_nal_unit -------------------------------
IdleProducer ==
    [pc |-> "idle", n |-> 0, unit |-> NoUnit, todo |-> <<>>,
     failed |-> <<>>, snap |-> <<>>, base |-> <<>>]

\* Lines 124-136: the next complete unit arrives; SPS and PPS are cached
\* before the lock is taken.
ProdBegin ==
    /\ producer.pc = "idle"
    /\ producer.n < MaxUnits
    /\ LET u == [id |-> producer.n + 1, type |-> NalType(producer.n + 1)]
       IN  /\ producer' = [producer EXCEPT !.pc = "wait", !.n = @ + 1,
                                           !.unit = u]
           /\ sps' = IF u.type = 7 THEN u ELSE sps
           /\ pps' = IF u.type = 8 THEN u ELSE pps
    /\ UNCHANGED <<clients, condition, sessions, handlers, sent, torn,
                   dropped, failures, bufVars, recVars, detVars, op, ret>>

\* "with self.condition:" and the copy self.clients[:].
ProdLock ==
    /\ producer.pc = "wait"
    /\ condition = "free"
    /\ condition' = "producer"
    /\ producer' = [producer EXCEPT !.pc = "loop", !.todo = clients,
                                    !.snap = clients, !.failed = <<>>,
                                    !.base = [i \in 1..Len(sent) |->
                                                Len(sent[i])]]
    /\ UNCHANGED <<clients, sps, pps, sessions, handlers, sent, torn,
                   dropped, failures, bufVars, recVars, detVars, op, ret>>

\* One iteration of the loop: send_h264_data to the next client of the
\* copy; a client whose send raises is noted in clients_to_remove.
ProdSend(ok) ==
    /\ producer.pc = "loop"
    /\ producer.todo # <<>>
    /\ LET id == Head(producer.todo)
           s  == sessions[id]
           r  == SendResult(s, ok)
       IN  /\ failures + Raised(<<r>>) <= MaxSendFailures
           /\ failures' = failures + Raised(<<r>>)
           /\ sessions' = [sessions EXCEPT ![id] = SessionAfter(s, r)]
           /\ sent' = [sent EXCEPT
                         ![id] = LogAfter(@, s, producer.unit, "publish", r)]
           /\ producer' = [producer EXCEPT
                             !.todo = Tail(@),
                             !.failed = IF r = "raise" THEN Append(@, id)
                                        ELSE @]
    /\ UNCHANGED <<clients, condition, sps, pps, handlers, torn, dropped,
                   bufVars, recVars, detVars, op, ret>>

\* After the loop: the failed clients are removed and the lock is released.
ProdRelease ==
    /\ producer.pc = "loop"
    /\ producer.todo = <<>>
    /\ clients' = RemoveDisconnected(clients, producer.failed)
    /\ dropped' = dropped \cup
                    {[sess |-> producer.failed[i], unit |-> producer.unit.id] :
                        i \in 1..Len(producer.failed)}
    /\ condition' = "free"
    /\ producer' = [IdleProducer EXCEPT !.n = producer.n]
    /\ UNCHANGED <<sps, pps, sessions, handlers, sent, torn,
                   failures, bufVars, recVars, detVars, op, ret>>

HubInit ==
    /\ clients = <<>>
    /\ condition = "free"
    /\ sps = NoUnit
    /\ pps = NoUnit
    /\ sessions = <<>>
    /\ handlers = [h \in Conns |-> [pc |-> "recv",
                                    session |-> NoHandlerSession,
                                    resp |-> 0]]
    /\ producer = IdleProducer
    /\ sent = <<>>
    /\ torn = {}
    /\ dropped = {}
    /\ failures = 0

HubNext ==
    \/ /\ \E h \in Conns, tr \in HubTransports, d \in SessionDraws,
             o \in SetupOutcomes : HSetup(h, tr, d[1], d[2], o)
       /\ UNCHANGED <<rtspVars, supVars, raceVars, nalVars, longVars, stallVars>>
    \/ /\ \E h \in Conns, ok1 \in BOOLEAN, ok2 \in BOOLEAN : HPlay(h, ok1, ok2)
       /\ UNCHANGED <<rtspVars, supVars, raceVars, nalVars, longVars, stallVars>>
    \/ (\E h \in Conns : HTeardown(h)) /\ UNCHANGED <<rtspVars, supVars, raceVars, nalVars, longVars, stallVars>>
    \/ (\E h \in Conns : HTeardownRemove(h)) /\ UNCHANGED <<rtspVars, supVars, raceVars, nalVars, longVars, stallVars>>
    \/ (\E h \in Conns : HDisconnect(h)) /\ UNCHANGED <<rtspVars, supVars, raceVars, nalVars, longVars, stallVars>>
    \/ (\E h \in Conns : HCleanup(h)) /\ UNCHANGED <<rtspVars, supVars, raceVars, nalVars, longVars, stallVars>>
    \/ ProdBegin /\ UNCHANGED <<rtspVars, supVars, raceVars, nalVars, longVars, stallVars>>
    \/ ProdLock /\ UNCHANGED <<rtspVars, supVars, raceVars, nalVars, longVars, stallVars>>
    \/ (\E ok \in BOOLEAN : ProdSend(ok)) /\ UNCHANGED <<rtspVars, supVars, raceVars, nalVars, longVars, stallVars>>
    \/ ProdRelease /\ UNCHANGED <<rtspVars, supVars, raceVars, nalVars, longVars, stallVars>>

(***************************************************************************)
(* RTSPHandler.handle_request on one connection   (src/streamserver.py)    *)
(*                                                                         *)
(* The client writes requests to the connection; recv returns some of the  *)
(* lines written so far, cut at any line end.  One step is one pass of the *)
(* "while True" loop: recv, the parse of what it returned, the dispatch on *)
(* the first line and the handler method with its response.                *)
(***************************************************************************)
\* The connection looked at in detail.
RtspConn == "c1"

\* The method names the dispatch compares with, and two that a client may
\* send besides.
KnownMethods == {"OPTIONS", "DESCRIBE", "SETUP", "PLAY", "TEARDOWN"}

ClientMethods == KnownMethods \cup {"GET_PARAMETER", "PLAY_NOTIFY"}

\* The characters of the texts a line begins with ("" is the empty line).
Chars ==
    [OPTIONS       |-> <<"O", "P", "T", "I", "O", "N", "S">>,
     DESCRIBE      |-> <<"D", "E", "S", "C", "R", "I", "B", "E">>,
     SETUP         |-> <<"S", "E", "T", "U", "P">>,
     PLAY          |-> <<"P", "L", "A", "Y">>,
     TEARDOWN      |-> <<"T", "E", "A", "R", "D", "O", "W", "N">>,
     GET_PARAMETER |-> <<"G", "E", "T", "_", "P", "A", "R", "A", "M", "E",
                         "T", "E", "R">>,
     PLAY_NOTIFY   |-> <<"P", "L", "A", "Y", "_", "N", "O", "T", "I", "F",
                         "Y">>,
     CSeq          |-> <<"C", "S", "e", "q">>,
     Transport     |-> <<"T", "r", "a", "n", "s", "p", "o", "r", "t">>]

\* A line of a request: the word it begins with ("" for the empty line),
\* the lower-cased key when it is a header ("" otherwise), and the header's
\* value in the form of NoTransport (CSeq: n has part <<n>>).
RequestLine(method) == [word |-> method, key |-> "", val |-> NoTransport]

HeaderLine(key, val) ==
    [word |-> IF key = "cseq" THEN "CSeq" ELSE "Transport",
     key |-> key, val |-> val]

BlankLine == [word |-> "", key |-> "", val |-> NoTransport]

\* The Transport headers of the SETUP requests: left out, client_port=a,
\* client_port=a-b.
SetupTransports ==
    {NoTransport,
     [client_port |-> TRUE, part |-> <<6000>>, numeric |-> TRUE],
     [client_port |-> TRUE, part |-> <<6000, 7000>>, numeric |-> TRUE]}

\* The value of a header that is the decimal text of n.
Number(n) == [client_port |-> FALSE, part |-> <<n>>, numeric |-> TRUE]

\* The text of the n-th request of the client: request line, CSeq: n, the
\* Transport header if there is one, and the empty line.
RequestText(method, n, transport) ==
    <<RequestLine(method),
      HeaderLine("cseq", Number(n))>>
    \o (IF transport = NoTransport THEN <<>>
        ELSE <<HeaderLine("transport", transport)>>)
    \o <<BlankLine>>

\* line.startswith(prefix), for the line that begins with word.
StartsWith(word, prefix) ==
    /\ word # ""
    /\ Len(Chars[prefix]) <= Len(Chars[word])
    /\ SubSeq(Chars[word], 1, Len(Chars[prefix])) = Chars[prefix]

\* request.strip().split('\r\n'): the lines without the empty ones at both
\* ends; a text of empty lines only gives one empty line.
Lines(data) ==
    LET full == {i \in 1..Len(data) : data[i] # BlankLine}
    IN  IF full = {} THEN <<BlankLine>>
        ELSE SubSeq(data, CHOOSE i \in full : \A j \in full : i <= j,
                          CHOOSE i \in full : \A j \in full : j <= i)

\* headers.get(key, default) after the loop over lines[1:], in which a
\* later header replaces an earlier one of the same key.
HeaderGet(lines, key, default) ==
    LET at == {i \in 2..Len(lines) : lines[i].key = key}
    IN  IF at = {} THEN default
        ELSE lines[CHOOSE i \in at : \A j \in at : j <= i].val

\* Lines 360-373: the request line, the CSeq and the Transport header of
\* what recv returned.
Parse(data) ==
    LET lines == Lines(data)
    IN  [request_line |-> lines[1].word,
         cseq |-> HeaderGet(lines, "cseq", Number(0)).part[1],
         transport |-> HeaderGet(lines, "transport", NoTransport)]

\* Line 373: int(headers.get('cseq', '0')) raises ValueError.
CSeqRaises(data) == ~HeaderGet(Lines(data), "cseq", Number(0)).numeric

\* Lines 442, 444: int() of the port part raises ValueError.
PortRaises(transport) == transport.client_port /\ ~transport.numeric

\* Lines 376-388: the branch of the if/elif chain that is taken.
Dispatch(request_line) ==
    IF StartsWith(request_line, "OPTIONS") THEN "OPTIONS"
    ELSE IF StartsWith(request_line, "DESCRIBE") THEN "DESCRIBE"
    ELSE IF StartsWith(request_line, "SETUP") THEN "SETUP"
    ELSE IF StartsWith(request_line, "PLAY") THEN "PLAY"
    ELSE IF StartsWith(request_line, "TEARDOWN") THEN "TEARDOWN"
    ELSE ""

\* ---- the responses -------------------------------------------------------
\* _send_response(code, reason): status line, CSeq and Server header.
Response(code, n) ==
    [code |-> code, cseq |-> n, session |-> 0, transport |-> <<>>,
     content_type |-> "", body |-> <<>>, public |-> {}]

\* _handle_describe: the SDP text, as the facts it states.
sdp ==
    [media |-> "video", port |-> 0, proto |-> "RTP/AVP", fmt |-> 96,
     rtpmap |-> <<96, 90000>>, encoding |-> "H264", control |-> "track1"]

OptionsResponse(n) ==
    [Response(200, n) EXCEPT !.public = KnownMethods]

DescribeResponse(n) ==
    [Response(200, n) EXCEPT !.content_type = "application/sdp",
                             !.body = <<sdp>>]

\* _handle_setup: 500 through _send_response, else 200 with the Session id
\* (a session is known by its number) and the port pair.
SetupResponse(code, n, id, ports) ==
    IF code = 500 THEN Response(500, n)
    ELSE [Response(200, n) EXCEPT !.session = id, !.transport = ports]

PlayResponse(code, n, id) ==
    IF code = 455 THEN Response(455, n)
    ELSE [Response(200, n) EXCEPT !.session = id]

TeardownResponse(n) == Response(200, n)

\* ---- handler methods that only answer -----------------------------------
Answer(h, code) ==
    /\ handlers[h].pc = "recv"
    /\ handlers' = [handlers EXCEPT ![h].resp = code]
    /\ UNCHANGED <<clients, condition, sps, pps, sessions, producer, sent,
                   torn, dropped, failures, bufVars, recVars, detVars,
                   op, ret>>

HOptions(h) == Answer(h, 200)

HDescribeForgets(h) ==
    /\ handlers[h].pc = "recv"
    /\ handlers' = [handlers EXCEPT ![h].resp = 200,
                                    ![h].session = NoHandlerSession]
    /\ UNCHANGED <<clients, condition, sps, pps, sessions, producer, sent,
                   torn, dropped, failures, bufVars, recVars, detVars,
                   op, ret>>

HDescribe(h) == Answer(h, 200)

HNotImplemented(h) == Answer(h, 501)

\* ---- the client ----------------------------------------------------------
\* The client writes its next request; its CSeq is the request's number.
ClientSend(method, transport) ==
    /\ requests < MaxRequests
    /\ handlers[RtspConn].pc # "closed"
    /\ transport # NoTransport => method = "SETUP"
    /\ requests' = requests + 1
    /\ stream' = stream \o RequestText(method, requests + 1, transport)
    /\ UNCHANGED <<cseq, response, replies, hubVars, bufVars, recVars,
                   detVars, supVars, raceVars, nalVars, longVars, stallVars, op, ret>>

\* self.socket.send(response.encode())
Send(r) ==
    /\ response' = r
    /\ replies' = Append(replies, r.cseq)

\* ---- one pass of the loop of handle_request ------------------------------
\* recv returns the first n lines not yet read; the pass takes the branch
\* for method ("" is the else branch).
Receive(n, method) ==
    /\ handlers[RtspConn].pc = "recv"
    /\ n \in 1..Len(stream)
    /\ ~CSeqRaises(SubSeq(stream, 1, n))
    /\ Dispatch(Parse(SubSeq(stream, 1, n)).request_line) = method
    /\ stream' = SubSeq(stream, n + 1, Len(stream))
    /\ cseq' = Parse(SubSeq(stream, 1, n)).cseq
    /\ UNCHANGED <<requests, supVars, raceVars, nalVars, longVars, stallVars>>

RtspOptions(n) ==
    /\ Receive(n, "OPTIONS")
    /\ HOptions(RtspConn)
    /\ Send(OptionsResponse(cseq'))

RtspDescribe(n) ==
    /\ Receive(n, "DESCRIBE")
    /\ HDescribe(RtspConn)
    /\ Send(DescribeResponse(cseq'))

RtspSetup(n, seq0, ssrc, outcome) ==
    /\ Receive(n, "SETUP")
    /\ ~PortRaises(Parse(SubSeq(stream, 1, n)).transport)
    /\ HSetup(RtspConn, Parse(SubSeq(stream, 1, n)).transport, seq0, ssrc,
              outcome)
    /\ Send(SetupResponse(handlers'[RtspConn].resp, cseq',
                          handlers'[RtspConn].session,
                          ParseClientPort(
                            Parse(SubSeq(stream, 1, n)).transport)))

RtspPlay(n, ok1, ok2) ==
    /\ Receive(n, "PLAY")
    /\ HPlay(RtspConn, ok1, ok2)
    /\ Send(PlayResponse(handlers'[RtspConn].resp, cseq',
                         handlers[RtspConn].session))

\* TEARDOWN: with a session the response follows remove_client.
RtspTeardown(n) ==
    /\ Receive(n, "TEARDOWN")
    /\ HTeardown(RtspConn)
    /\ IF handlers[RtspConn].session = NoHandlerSession
       THEN Send(TeardownResponse(cseq'))
       ELSE UNCHANGED <<response, replies>>

RtspTeardownRemove ==
    /\ HTeardownRemove(RtspConn)
    /\ Send(TeardownResponse(cseq))
    /\ UNCHANGED <<stream, cseq, requests, supVars, raceVars, nalVars, longVars, stallVars>>

RtspNotImplemented(n) ==
    /\ Receive(n, "")
    /\ HNotImplemented(RtspConn)
    /\ Send(Response(501, cseq'))

\* recv returns b'': the client has closed the connection and everything
\* it wrote was read.
RtspDisconnect ==
    /\ stream = <<>>
    /\ HDisconnect(RtspConn)
    /\ UNCHANGED <<rtspVars, supVars, raceVars, nalVars, longVars, stallVars>>

RtspCleanup ==
    /\ HCleanup(RtspConn)
    /\ UNCHANGED <<rtspVars, supVars, raceVars, nalVars, longVars, stallVars>>

RtspInit ==
    /\ stream = <<>>
    /\ cseq = 0
    /\ response = Response(0, 0)
    /\ requests = 0
    /\ replies = <<>>

RtspNext ==
    \/ \E m \in ClientMethods, tr \in SetupTransports : ClientSend(m, tr)
    \/ \E n \in 1..MaxRequestLines : RtspOptions(n)
    \/ \E n \in 1..MaxRequestLines : RtspDescribe(n)
    \/ \E n \in 1..MaxRequestLines, d \in RtspSessionDraws,
          o \in RtspSetupOutcomes : RtspSetup(n, d[1], d[2], o)
    \/ \E n \in 1..MaxRequestLines, ok1 \in BOOLEAN, ok2 \in BOOLEAN :
          RtspPlay(n, ok1, ok2)
    \/ \E n \in 1..MaxRequestLines : RtspTeardown(n)
    \/ RtspTeardownRemove
    \/ \E n \in 1..MaxRequestLines : RtspNotImplemented(n)
    \/ RtspDisconnect
    \/ RtspCleanup
    \/ ProdBegin /\ UNCHANGED <<rtspVars, supVars, raceVars, nalVars, longVars, stallVars>>
    \/ ProdLock /\ UNCHANGED <<rtspVars, supVars, raceVars, nalVars, longVars, stallVars>>
    \/ (\E ok \in BOOLEAN : ProdSend(ok)) /\ UNCHANGED <<rtspVars, supVars, raceVars, nalVars, longVars, stallVars>>
    \/ ProdRelease /\ UNCHANGED <<rtspVars, supVars, raceVars, nalVars, longVars, stallVars>>

(***************************************************************************)
(* run_stream_server and StreamMonitor   (src/streamserver.py)             *)
(*                                                                         *)
(* Threads: the supervisor (main thread, run_stream_server), the thread of *)
(* the RTSP server and the thread of each StreamMonitor.  The monitor of   *)
(* the attempt before the current one is kept as stale: its thread is a    *)
(* daemon thread that nothing joins.  The health of the stream, the        *)
(* outcome of the camera calls and of bind are inputs.                     *)
(***************************************************************************)
\* A StreamMonitor that was not created yet.  thread is the position of
\* _monitor_loop: "none" (not started), "sleep" (in time.sleep), "check"
\* (past the is_running test that follows the sleep), "done" (returned).
\* calls and checks are history: the calls of restart_callback and the
\* results of the latest health checks, oldest first.
NoMonitor ==
    [thread |-> "none", is_running |-> FALSE, consecutive_failures |-> 0,
     calls |-> 0, checks |-> <<>>, stopped |-> FALSE]

\* RTSPServer: thread is "none", "starting" (start was entered),
\* "listening" (in the accept loop) or "dead" (start returned or raised).
NoServer == [thread |-> "none", socket |-> FALSE, is_running |-> FALSE]

\* What one health check yields: check_stream_health returned True or
\* False, or the try block raised.
CheckOutcomes == {"healthy", "unhealthy", "error"}

\* initialize_camera: it returns the camera, or Picamera2() raises, or the
\* configuration raises after Picamera2() returned.
CameraOutcomes == {"ok", "no_camera", "configure_fails"}

\* The positions of the supervisor inside the try block of one attempt.
AttemptPcs == {"camera", "output", "streaming", "server", "serving"}

SupInit ==
    /\ supervisor = [pc |-> "top", restart_count |-> 0,
                     camera_retry_count |-> 0, streaming_retry_count |-> 0,
                     picam2 |-> FALSE, server_instance |-> FALSE,
                     stream_monitor |-> FALSE, leaving |-> FALSE,
                     interrupted |-> FALSE]
    /\ restart_requested = FALSE
    /\ camera = [open |-> 0, recording |-> FALSE]
    /\ server = NoServer
    /\ monitor = NoMonitor
    /\ stale = NoMonitor

\* ---- StreamMonitor -------------------------------------------------------
\* start_monitoring: nothing when is_running is set, else the thread starts
\* and enters its loop.
StartMonitoring(m) ==
    IF m.is_running THEN m
    ELSE [m EXCEPT !.is_running = TRUE, !.thread = "sleep"]

\* stop_monitoring
StopMonitoring(m) == [m EXCEPT !.is_running = FALSE, !.stopped = TRUE]

\* time.sleep(check_interval) returns; "if not self.is_running: break".
AfterWake(m) ==
    [m EXCEPT !.thread = IF m.is_running THEN "check" ELSE "done"]

CountAfterNoReset(m, outcome) == m.consecutive_failures + 1

\* consecutive_failures after a check: 0 when healthy, else one more.
CountAfter(m, outcome) ==
    IF outcome = "healthy" THEN 0 ELSE m.consecutive_failures + 1

\* The results of the latest max_consecutive_failures checks.
LatestChecks(checks, outcome) ==
    IF Len(checks) < max_consecutive_failures THEN Append(checks, outcome)
    ELSE Append(Tail(checks), outcome)

\* Whether the check makes the loop call restart_callback and break.
Triggers(m, outcome) ==
    outcome # "healthy" /\ CountAfter(m, outcome) >= max_consecutive_failures

\* The health check with a count that is not kept from one check to the
\* next.
AfterCheckCountLost(m, outcome) ==
    [m EXCEPT !.checks = LatestChecks(@, outcome),
              !.calls = IF Triggers(m, outcome) THEN @ + 1 ELSE @,
              !.thread = IF Triggers(m, outcome) \/ ~m.is_running
                         THEN "done" ELSE "sleep"]

\* The health check and what follows it up to the next sleep: the count,
\* the callback with its break, or the loop test "while self.is_running".
AfterCheck(m, outcome) ==
    [m EXCEPT !.consecutive_failures = CountAfter(m, outcome),
              !.checks = LatestChecks(@, outcome),
              !.calls = IF Triggers(m, outcome) THEN @ + 1 ELSE @,
              !.thread = IF Triggers(m, outcome) \/ ~m.is_running
                         THEN "done" ELSE "sleep"]

MonWake ==
    /\ monitor.thread = "sleep"
    /\ monitor' = AfterWake(monitor)
    /\ UNCHANGED <<supervisor, restart_requested, camera, server, stale,
                   bufVars, recVars, detVars, hubVars, rtspVars, raceVars, nalVars, longVars, stallVars,
                   op, ret>>

\* request_restart sets the event.
MonCheck(outcome) ==
    /\ monitor.thread = "check"
    /\ monitor' = AfterCheck(monitor, outcome)
    /\ restart_requested' = (restart_requested \/ Triggers(monitor, outcome))
    /\ UNCHANGED <<supervisor, camera, server, stale,
                   bufVars, recVars, detVars, hubVars, rtspVars, raceVars, nalVars, longVars, stallVars,
                   op, ret>>

StaleWake ==
    /\ stale.thread = "sleep"
    /\ stale' = AfterWake(stale)
    /\ UNCHANGED <<supervisor, restart_requested, camera, server, monitor,
                   bufVars, recVars, detVars, hubVars, rtspVars, raceVars, nalVars, longVars, stallVars,
                   op, ret>>

StaleCheck(outcome) ==
    /\ stale.thread = "check"
    /\ stale' = [AfterCheck(stale, outcome) EXCEPT !.checks = <<>>]
    /\ restart_requested' = (restart_requested \/ Triggers(stale, outcome))
    /\ UNCHANGED <<supervisor, camera, server, monitor,
                   bufVars, recVars, detVars, hubVars, rtspVars, raceVars, nalVars, longVars, stallVars,
                   op, ret>>

\* ---- RTSPServer ----------------------------------------------------------
\* RTSPServer.stop: is_running = False and the socket, if there is one, is
\* closed; a thread blocked in accept then leaves its loop.
StopServer(s) ==
    [s EXCEPT !.is_running = FALSE, !.socket = FALSE,
              !.thread = IF s.thread = "listening" THEN "dead" ELSE @]

\* RTSPServer.start up to the accept loop: the socket is created; bind and
\* listen work (is_running = True) or raise (the thread ends).
ServerBind(ok) ==
    /\ server.thread = "starting"
    /\ server' = IF ok
                 THEN [server EXCEPT !.thread = "listening",
                                     !.socket = TRUE, !.is_running = TRUE]
                 ELSE [server EXCEPT !.thread = "dead", !.socket = TRUE]
    /\ UNCHANGED <<supervisor, restart_requested, camera, monitor, stale,
                   bufVars, recVars, detVars, hubVars, rtspVars, raceVars, nalVars, longVars, stallVars,
                   op, ret>>

\* ---- run_stream_server ---------------------------------------------------
\* Top of "while True" and the first lines of the try block.
SupBegin ==
    /\ supervisor.pc = "top"
    /\ supervisor.restart_count < MaxAttempts
    /\ supervisor' = [supervisor EXCEPT
                        !.pc = "camera", !.restart_count = @ + 1,
                        !.camera_retry_count = 0,
                        !.streaming_retry_count = 0,
                        !.picam2 = FALSE, !.server_instance = FALSE,
                        !.stream_monitor = FALSE]
    /\ restart_requested' = FALSE
    /\ UNCHANGED <<camera, server, monitor, stale,
                   bufVars, recVars, detVars, hubVars, rtspVars, raceVars, nalVars, longVars, stallVars,
                   op, ret>>

\* One try of initialize_camera where the third failure is followed by a
\* fourth try.
SupInitCameraOneMoreTry(outcome) ==
    /\ supervisor.pc = "camera"
    /\ outcome # "no_camera" => camera.open < MaxOpenCameras
    /\ camera' = [camera EXCEPT
                    !.open = IF outcome = "no_camera" THEN @ ELSE @ + 1]
    /\ supervisor' = [supervisor EXCEPT
                        !.camera_retry_count = @ + 1,
                        !.picam2 = (outcome = "ok"),
                        !.pc = IF outcome = "ok" THEN "output"
                               ELSE IF supervisor.camera_retry_count + 1
                                          > max_camera_retries
                                    THEN "camera_error"
                                    ELSE "camera"]
    /\ UNCHANGED <<restart_requested, server, monitor, stale,
                   bufVars, recVars, detVars, hubVars, rtspVars, raceVars, nalVars, longVars, stallVars,
                   op, ret>>

\* One try of initialize_camera.  When the configuration raises, the
\* Picamera2 object it created is referenced by nothing and is still open.
\* After the third failure CameraError leaves the try block.
SupInitCamera(outcome) ==
    /\ supervisor.pc = "camera"
    /\ outcome # "no_camera" => camera.open < MaxOpenCameras
    /\ camera' = [camera EXCEPT
                    !.open = IF outcome = "no_camera" THEN @ ELSE @ + 1]
    /\ supervisor' = [supervisor EXCEPT
                        !.camera_retry_count = @ + 1,
                        !.picam2 = (outcome = "ok"),
                        !.pc = IF outcome = "ok" THEN "output"
                               ELSE IF supervisor.camera_retry_count + 1
                                          >= max_camera_retries
                                    THEN "camera_error"
                                    ELSE "camera"]
    /\ UNCHANGED <<restart_requested, server, monitor, stale,
                   bufVars, recVars, detVars, hubVars, rtspVars, raceVars, nalVars, longVars, stallVars,
                   op, ret>>

\* H264StreamOutput() and StreamMonitor(output, request_restart, ...).
SupCreateOutput ==
    /\ supervisor.pc = "output"
    /\ supervisor' = [supervisor EXCEPT !.pc = "streaming",
                                        !.stream_monitor = TRUE]
    /\ stale' = IF monitor.thread \in {"sleep", "check"}
                THEN [monitor EXCEPT !.checks = <<>>] ELSE stale
    /\ monitor' = NoMonitor
    /\ UNCHANGED <<restart_requested, camera, server,
                   bufVars, recVars, detVars, hubVars, rtspVars, raceVars, nalVars, longVars, stallVars,
                   op, ret>>

\* One try of start_camera_streaming; after the third failure CameraError
\* leaves the try block.
SupStartStreaming(ok) ==
    /\ supervisor.pc = "streaming"
    /\ camera' = [camera EXCEPT !.recording = ok]
    /\ supervisor' = [supervisor EXCEPT
                        !.streaming_retry_count = @ + 1,
                        !.pc = IF ok THEN "server"
                               ELSE IF supervisor.streaming_retry_count + 1
                                          >= max_streaming_retries
                                    THEN "camera_error"
                                    ELSE "streaming"]
    /\ UNCHANGED <<restart_requested, server, monitor, stale,
                   bufVars, recVars, detVars, hubVars, rtspVars, raceVars, nalVars, longVars, stallVars,
                   op, ret>>

\* RTSPServer(...), stream_monitor.start_monitoring() and the start of the
\* server thread.
SupStartServer ==
    /\ supervisor.pc = "server"
    /\ supervisor' = [supervisor EXCEPT !.pc = "serving",
                                        !.server_instance = TRUE]
    /\ server' = [NoServer EXCEPT !.thread = "starting"]
    /\ monitor' = StartMonitoring(monitor)
    /\ UNCHANGED <<restart_requested, camera, stale,
                   bufVars, recVars, detVars, hubVars, rtspVars, raceVars, nalVars, longVars, stallVars,
                   op, ret>>

\* The wait loop ends: the server thread is no longer alive or
\* restart_requested is set.  The CameraError raised for a restart request
\* is caught by "except Exception as serve_error" and not raised again; the
\* inner finally stops the server and the try block ends without an
\* exception, so no except clause of the attempt runs.
SupServeEnds ==
    /\ supervisor.pc = "serving"
    /\ server.thread = "dead" \/ restart_requested
    /\ server' = StopServer(server)
    /\ supervisor' = [supervisor EXCEPT !.pc = "finally"]
    /\ UNCHANGED <<restart_requested, camera, monitor, stale,
                   bufVars, recVars, detVars, hubVars, rtspVars, raceVars, nalVars, longVars, stallVars,
                   op, ret>>

\* "except CameraError": break when restart_count >= max_restarts, else the
\* sleep before the next attempt.
SupCameraError ==
    /\ supervisor.pc = "camera_error"
    /\ supervisor' = [supervisor EXCEPT
                        !.pc = "finally",
                        !.leaving = (supervisor.restart_count >= max_restarts)]
    /\ UNCHANGED <<restart_requested, camera, server, monitor, stale,
                   bufVars, recVars, detVars, hubVars, rtspVars, raceVars, nalVars, longVars, stallVars,
                   op, ret>>

\* KeyboardInterrupt inside the try block: while serving the inner finally
\* stops the server first; "except KeyboardInterrupt: break".
SupInterrupt ==
    /\ supervisor.pc \in AttemptPcs
    /\ server' = IF supervisor.pc = "serving" THEN StopServer(server)
                 ELSE server
    /\ supervisor' = [supervisor EXCEPT !.pc = "finally", !.leaving = TRUE,
                                        !.interrupted = TRUE]
    /\ UNCHANGED <<restart_requested, camera, monitor, stale,
                   bufVars, recVars, detVars, hubVars, rtspVars, raceVars, nalVars, longVars, stallVars,
                   op, ret>>

\* The finally block of the attempt: stop_monitoring if stream_monitor,
\* stop_camera_streaming and close if picam2, stop if server_instance;
\* then the loop is left (break) or goes round.
SupFinallyBody ==
    /\ supervisor.pc = "finally"
    /\ monitor' = IF supervisor.stream_monitor THEN StopMonitoring(monitor)
                  ELSE monitor
    /\ camera' = IF supervisor.picam2
                 THEN [open |-> camera.open - 1, recording |-> FALSE]
                 ELSE camera
    /\ server' = IF supervisor.server_instance THEN StopServer(server)
                 ELSE server
    /\ supervisor' = [supervisor EXCEPT
                        !.pc = IF supervisor.leaving THEN "returned"
                               ELSE "top"]
    /\ UNCHANGED <<restart_requested, stale,
                   bufVars, recVars, detVars, rtspVars, raceVars, nalVars, longVars, stallVars,
                   op, ret>>

\* The finally block; the stream output and its clients are not touched by
\* run_stream_server.
SupFinally == SupFinallyBody /\ UNCHANGED hubVars

SupNext ==
    \/ SupBegin
    \/ \E o \in CameraOutcomes : SupInitCamera(o)
    \/ SupCreateOutput
    \/ \E ok \in BOOLEAN : SupStartStreaming(ok)
    \/ SupStartServer
    \/ \E ok \in BOOLEAN : ServerBind(ok)
    \/ SupServeEnds
    \/ SupCameraError
    \/ SupInterrupt
    \/ SupFinally
    \/ MonWake
    \/ \E o \in CheckOutcomes : MonCheck(o)
    \/ StaleWake
    \/ \E o \in CheckOutcomes : StaleCheck(o)

\* The pre-roll lists start_recording is called with: snapshots of the
\* buffer (empty, one frame, full) and a list holding a None frame.
PrebufferInputs ==
    {<<>>, <<Null, 1>>} \cup {[i \in 1..n |-> i] : n \in {1, max_frames}}

\* The frame add_frame is called with: None or a camera frame.
LiveFrame == max_frames + 1

RecFrameInputs == {Null, LiveFrame}

BufInit ==
    /\ buffer = <<>>
    /\ snapshot = <<>>
    /\ nextFrame = 1
    /\ added = <<>>

RecInit ==
    /\ is_recording = FALSE
    /\ current_writer = NoWriter
    /\ current_filename = <<>>
    /\ recording_start_time = <<>>
    /\ post_motion_frames = 0
    /\ events = <<>>
    /\ now = 0
    /\ sess = NoSession
    /\ finalized = <<>>

\* No thread is inside start_recording.
Threads == {"t1", "t2"}

NoCall == [pc |-> "idle", ret |-> FALSE, pre |-> <<>>, outcome |-> "ok",
           opened |-> FALSE, overlap |-> FALSE]

RaceInit == callers = [t \in Threads |-> NoCall]

\* No session yet.  The timestamp of a session is 3600 times the number of
\* datagrams it has sent (it starts at 0 and only send_h264_data adds to
\* it), so the number of datagrams, units, stands for it; the product
\* itself leaves the range of the integers of the model checker.
NoLongSession == [pc |-> "none", units |-> 0, sequence_number |-> 0,
                  pack_failed |-> FALSE]

LongInit == long_session = NoLongSession

\* H264StreamOutput.__init__ sets last_frame_time to the time of creation:
\* no output has gone without frames for longer than max_frame_age.
StallInit == stalled = 0

\* H264StreamOutput.__init__: self.buffer = b""
NalInit ==
    /\ h264_buffer = <<>>
    /\ fed = <<>>
    /\ dispatched = <<>>

Init ==
    /\ BufInit
    /\ RecInit
    /\ DetInit
    /\ HubInit
    /\ RtspInit
    /\ SupInit
    /\ RaceInit
    /\ NalInit
    /\ LongInit
    /\ StallInit
    /\ op = "init"
    /\ ret = FALSE

BufNext ==
    \/ \E f \in FrameInputs : BufferAddFrame(f)
    \/ BufferClear
    \/ BufferGetPrebufferFrames

RecNext ==
    \/ \E pre \in PrebufferInputs, o \in StartOutcomes, dt \in 0..1 :
          RecStartRecording(pre, o, dt)
    \/ \E f \in RecFrameInputs, m \in BOOLEAN, w \in BOOLEAN, x \in StopInputs :
          /\ f = Null => ~m
          /\ RecAddFrame(f, m, w, x[1], x[2])
    \/ \E x \in StopInputs : RecStopRecording(x[1], x[2])
    \/ RecForceStop

SpecBuf == Init /\ [][BufNext]_vars

SpecRec == Init /\ [][RecNext]_vars

SpecDet == Init /\ [][DetNext]_vars

SpecHub == Init /\ [][HubNext]_vars

SpecRtsp == Init /\ [][RtspNext]_vars

SpecSup == Init /\ [][SupNext]_vars

(***************************************************************************)
(* Properties of CircularVideoBuffer                                       *)
(***************************************************************************)
LastN(q, n) == IF Len(q) <= n THEN q ELSE SubSeq(q, Len(q) - n + 1, Len(q))

\* C1: whatever add_frame calls were made, get_prebuffer_frames returns at
\* most fps * pre_roll_seconds entries, and they are the most recent frames
\* added, oldest first; so is every list it has returned.
C1_PrebufferMostRecent ==
    /\ Len(get_prebuffer_frames) <= Fps * PreBufferDuration
    /\ get_prebuffer_frames = LastN(added, Fps * PreBufferDuration)
    /\ op = "buffer.get_prebuffer_frames" =>
          /\ Len(snapshot) <= Fps * PreBufferDuration
          /\ snapshot = LastN(added, Fps * PreBufferDuration)

\* C1 witness: more frames were added than the buffer holds, and the list
\* returned holds the last ones.
C1_Witness ==
    /\ op = "buffer.get_prebuffer_frames"
    /\ Len(added) > Fps * PreBufferDuration
    /\ Len(snapshot) = Fps * PreBufferDuration
    /\ snapshot[Len(snapshot)] = added[Len(added)]
    /\ snapshot[1] # added[1]

(***************************************************************************)
(* Properties of VideoRecorder                                             *)
(***************************************************************************)
AnyStartRecording ==
    \E pre \in PrebufferInputs, o \in StartOutcomes, dt \in 0..1 :
        RecStartRecording(pre, o, dt)

\* C2: start_recording called while a recording is active returns False and
\* changes nothing: the same session stays active with the same file, writer,
\* start time and countdown, and no event is written.
C2_StartWhileRecordingRejected ==
    [][(is_recording /\ AnyStartRecording) =>
          /\ ret' = FALSE
          /\ is_recording'
          /\ UNCHANGED <<current_writer, current_filename,
                         recording_start_time, post_motion_frames, events,
                         sess, finalized>>]_vars

\* C2 witness: start_recording has been rejected during a running session.
C2_Witness ==
    /\ is_recording
    /\ op = "start_recording"
    /\ ret = FALSE
    /\ sess.end = "running"
    /\ current_writer.opened

\* C3 (as claimed): in a session fed motion-present frames first and
\* motion-absent frames afterwards, the recorder is Recording as long as fewer
\* than post_roll_seconds * fps motion-absent frames were fed, and the
\* countdown ends the session exactly at that number.
C3_IdleAfterPostRoll ==
    sess.plain =>
        /\ sess.end = "running" =>
              is_recording /\ sess.quiet < PostMotionDuration * Fps
        /\ sess.end = "countdown" => sess.quiet = PostMotionDuration * Fps

\* C4 (as claimed, at the model's scale): one burst of motion on frames
\* 0..BurstLen-1 gives one session that starts with the pre-roll frames
\* written first (buffered frames 1, 2, .. before any later frame), is
\* Recording through frame (BurstLen-1) + post-roll frames, then finalizes,
\* and one Event is recorded for it.
C4_SingleBurstOneSession ==
    (sess.plain /\ sess.no = 1 /\ sess.motion = BurstLen) =>
        /\ sess.end = "running" =>
              /\ is_recording
              /\ sess.quiet < PostMotionDuration * Fps
              /\ \A i \in 1..Len(current_writer.written) :
                    current_writer.written[i] # LiveFrame =>
                        /\ current_writer.written[i] = i
                        /\ i <= Fps * PreBufferDuration
        /\ sess.end = "countdown" =>
              /\ sess.quiet = PostMotionDuration * Fps
              /\ \A i \in 1..Len(finalized) :
                    finalized[i].db = "inserted" =>
                        Len(SelectSeq(events, LAMBDA e : e.session = 1)) = 1

EventsOf(s) == Len(SelectSeq(events, LAMBDA e : e.session = s))

FinalizedOf(s) == SelectSeq(finalized, LAMBDA f : f.session = s)

C6_NullFrameLeavesState ==
    [][(\E o \in DetOutcomes, dt \in 0..1 : DetDetectMotion(NoFrame, o, dt)) =>
          /\ detRet' = <<FALSE, <<>>>>
          /\ UNCHANGED <<bg_subtractor, last_motion_time>>]_vars

\* C6 witness: a None frame was given to a detector that has learned a scene
\* and has seen motion.
C6_Witness ==
    /\ op = "detect_motion"
    /\ detIn = NoFrame
    /\ detRet = <<FALSE, <<>>>>
    /\ bg_subtractor # <<>>
    /\ last_motion_time > 0

\* C7: the boxes returned are those of the contours whose area is strictly
\* greater than min_area (area min_area is left out, min_area + 1 is in), and
\* the flag returned is true exactly when a box is returned.
C7_StrictlyGreaterThanMinArea ==
    op = "detect_motion" =>
        /\ detRet[1] <=> (detRet[2] # <<>>)
        /\ \A i \in 1..Len(detFg) :
              /\ detFg[i] = min_area => ~(\E k \in 1..Len(detRet[2]) : detRet[2][k] = i)
              /\ detFg[i] = min_area + 1 => \E k \in 1..Len(detRet[2]) : detRet[2][k] = i
              /\ (\E k \in 1..Len(detRet[2]) : detRet[2][k] = i) <=> detFg[i] > min_area
        /\ \A k \in 1..Len(detRet[2]) : detRet[2][k] \in 1..Len(detFg)

\* C7 witness: one call found a contour of area min_area and one of area
\* min_area + 1, and returned the box of the second only.
C7_Witness ==
    /\ op = "detect_motion"
    /\ detFg = <<min_area, min_area + 1>>
    /\ detRet = <<TRUE, <<2>>>>

\* The sessions in a client list.
Registered(q) == {q[i] : i \in 1..Len(q)}

\* C8: with two consumers registered on the hub, every published unit
\* reaches both of them, each exactly once and in publication order; a
\* consumer that fails on write is removed, and the publish still reaches the
\* other one.  Stated of the step that ends a publish (ProdRelease), for the
\* copy of the client list the publish went through; a session whose
\* TEARDOWN has begun no longer counts as a consumer.
C8_EveryUnitReachesBothConsumers ==
    [][ProdRelease =>
        (Cardinality(Registered(producer.snap)) = 2 =>
           \A id \in Registered(producer.snap) :
              LET new == SubSeq(sent[id], producer.base[id] + 1,
                                Len(sent[id]))
              IN  sessions[id].is_playing =>
                    IF InSeq(id, producer.failed)
                    THEN ~InSeq(id, clients')
                    ELSE /\ Len(new) = 1
                         /\ new[1].payload = producer.unit
                         /\ InSeq(id, clients')
                         /\ \A k \in 1..producer.base[id] :
                               sent[id][k].via = "publish" =>
                                 sent[id][k].payload.id < producer.unit.id)
    ]_vars

\* C9: once the TEARDOWN of a session that went through SETUP and PLAY has
\* been answered, no RTP datagram is sent to that client's negotiated port
\* (the peer address of its connection and the session's RTP port), whatever
\* the producer does.
C9_NoDatagramAfterTeardown ==
    [][\A id \in 1..Len(sent) :
          \A k \in (Len(sent[id]) + 1)..Len(sent'[id]) :
             <<sent'[id][k].conn, sent'[id][k].port>> \notin torn]_vars

\* C10: within one session the sequence numbers of consecutively sent RTP
\* datagrams differ by exactly 1 modulo 65536: after 65535 comes 0, with no
\* gap and no repeat.
C10_SequenceNumbersConsecutive ==
    \A id \in 1..Len(sent) :
       \A k \in 1..(Len(sent[id]) - 1) :
          sent[id][k + 1].seq = (sent[id][k].seq + 1) % SeqModulus

\* C10 witness: a session sent the datagram with sequence number 65535 and
\* then the datagram with sequence number 0.
C10_Witness ==
    \E id \in 1..Len(sent) :
       \E k \in 1..(Len(sent[id]) - 1) :
          /\ sent[id][k].seq = SeqModulus - 1
          /\ sent[id][k + 1].seq = 0

(***************************************************************************)
(* Properties of RTSPHandler                                               *)
(***************************************************************************)
\* A SETUP on connection h was answered 200: one of its sessions holds the
\* sockets it was given (only _cleanup, which ends the handler, clears them).
HadSuccessfulSetup(h) ==
    \E id \in 1..Len(sessions) :
       sessions[id].conn = h /\ sessions[id].rtp_socket

\* C11 (as claimed): a PLAY on a connection that has had no successful SETUP
\* is answered 455, registers nothing in the distribution set, leaves the
\* connection without a session, and the handler stays in its request loop.
C11_PlayWithoutSetupRejected ==
    [][\A h \in Conns :
          (/\ handlers[h].pc = "recv"
           /\ ~HadSuccessfulSetup(h)
           /\ \E ok1 \in BOOLEAN, ok2 \in BOOLEAN : HPlay(h, ok1, ok2)) =>
             /\ handlers'[h].resp = 455
             /\ clients' = clients
             /\ handlers'[h].session = NoHandlerSession
             /\ handlers'[h].pc = "recv"]_vars

\* One pass of the loop of handle_request in which recv returns the next n
\* lines of the connection.
Reads(n) ==
    /\ handlers[RtspConn].pc = "recv"
    /\ n \in 1..Len(stream)
    /\ stream' = SubSeq(stream, n + 1, Len(stream))

\* What the handler takes for the request in those n lines.
Read(n) == Parse(SubSeq(stream, 1, n))

\* The session of the connection and the distribution set are as before,
\* and the handler is back at recv.
SessionStateKept ==
    /\ handlers'[RtspConn].session = handlers[RtspConn].session
    /\ handlers'[RtspConn].pc = "recv"
    /\ UNCHANGED <<sessions, clients>>

\* C12 (as claimed): a request whose method is none of OPTIONS, DESCRIBE,
\* SETUP, PLAY, TEARDOWN is answered 501 with its CSeq, the session state
\* and the distribution set stay as they were, and the handler goes on to
\* the next request.
C12_UnknownMethodNotImplemented ==
    [][\A n \in 1..MaxRequestLines :
          (Reads(n) /\ Read(n).request_line \in ClientMethods \ KnownMethods)
             => /\ response' = Response(501, Read(n).cseq)
                /\ replies' = Append(replies, Read(n).cseq)
                /\ SessionStateKept]_vars

(***************************************************************************)
(* Properties of the RTP datagrams                                         *)
(***************************************************************************)
\* The datagrams of session id sent by the step.
NewDatagrams(id) ==
    LET before == IF id <= Len(sent) THEN Len(sent[id]) ELSE 0
    IN  {sent'[id][k] : k \in (before + 1)..Len(sent'[id])}

\* The units the encoder has handed to write so far.
UnitsWritten == {[id |-> i, type |-> NalType(i)] : i \in 1..producer.n}

\* C13: every RTP datagram is a 12-byte header followed by the unmodified
\* payload; the header has version 2, no padding, no extension, CSRC count
\* 0, the marker bit set and payload type 96, and its SSRC is the one drawn
\* when the session was created, which no step changes.
C13_RtpDatagramLayout ==
    [][/\ \A id \in 1..Len(sessions) : sessions'[id].ssrc = sessions[id].ssrc
       /\ \A id \in 1..Len(sent') :
             \A d \in NewDatagrams(id) :
                /\ d.hlen = 12
                /\ d.b0 \div 64 = 2
                /\ (d.b0 \div 32) % 2 = 0
                /\ (d.b0 \div 16) % 2 = 0
                /\ d.b0 % 16 = 0
                /\ d.b1 \div 128 = 1
                /\ d.b1 % 128 = 96
                /\ d.payload \in UnitsWritten
                /\ d.ssrc = sessions'[id].ssrc]_vars

\* C13 witness: two sessions with different SSRCs have both sent datagrams,
\* one of them a replayed parameter set and a published unit.
C13_Witness ==
    \E id \in 1..Len(sent), other \in 1..Len(sent) :
       /\ sessions[id].ssrc # sessions[other].ssrc
       /\ sent[other] # <<>>
       /\ \E j \in 1..Len(sent[id]), k \in 1..Len(sent[id]) :
             /\ j < k
             /\ sent[id][j].via = "replay"
             /\ sent[id][k].via = "publish"
             /\ sent[id][k].ssrc = sent[id][j].ssrc

\* C14: OPTIONS is answered 200 and DESCRIBE is answered 200 with the same
\* fixed SDP body (content type application/sdp, H.264 video on payload
\* type 96), whatever the state of the session; neither changes the session
\* state, the negotiated ports or the distribution set.
C14_OptionsDescribeAnyState ==
    [][\A n \in 1..MaxRequestLines :
          /\ (Reads(n) /\ Read(n).request_line = "OPTIONS")
                => /\ response'.code = 200
                   /\ response'.cseq = Read(n).cseq
                   /\ SessionStateKept
          /\ (Reads(n) /\ Read(n).request_line = "DESCRIBE")
                => /\ response'.code = 200
                   /\ response'.cseq = Read(n).cseq
                   /\ response'.content_type = "application/sdp"
                   /\ response'.body = <<sdp>>
                   /\ sdp.media = "video"
                   /\ sdp.encoding = "H264"
                   /\ sdp.fmt = 96
                   /\ sdp.rtpmap[1] = 96
                   /\ SessionStateKept]_vars

\* C14 witness: DESCRIBE was just answered with the SDP on a connection
\* whose session is playing and registered in the distribution set.
C14_Witness ==
    /\ response.code = 200
    /\ response.body = <<sdp>>
    /\ handlers[RtspConn].pc = "recv"
    /\ handlers[RtspConn].session # NoHandlerSession
    /\ sessions[handlers[RtspConn].session].is_playing
    /\ InSeq(handlers[RtspConn].session, clients)

\* The port pair the Transport header tr asks for: client_port=a-b gives
\* (a, b), client_port=a gives (a, a + 1), no client_port gives 5004/5005.
AskedPorts(tr) ==
    IF ~tr.client_port THEN <<5004, 5005>>
    ELSE IF Len(tr.part) = 2 THEN <<tr.part[1], tr.part[2]>>
    ELSE <<tr.part[1], tr.part[1] + 1>>

\* C15: SETUP takes the client's ports from the Transport header
\* (client_port=a-b gives (a, b), client_port=a gives (a, a + 1), none gives
\* 5004/5005), its response carries a Session id and echoes the pair, and
\* every RTP datagram of the session goes to that RTP port at the peer
\* address of the connection.
C15_SetupNegotiatesPorts ==
    [][/\ \A n \in 1..MaxRequestLines :
             (Reads(n) /\ Read(n).request_line = "SETUP")
                => LET id == handlers'[RtspConn].session
                   IN  /\ id = Len(sessions) + 1
                       /\ Len(sessions') = id
                       /\ <<sessions'[id].rtp_port, sessions'[id].rtcp_port>>
                             = AskedPorts(Read(n).transport)
                       /\ response'.code = 200
                       /\ response'.session = id
                       /\ response'.transport = AskedPorts(Read(n).transport)
       /\ \A id \in 1..Len(sessions) :
             sessions'[id].rtp_port = sessions[id].rtp_port
       /\ \A id \in 1..Len(sent') :
             \A d \in NewDatagrams(id) :
                /\ d.conn = sessions'[id].conn
                /\ d.conn = RtspConn
                /\ d.port = sessions'[id].rtp_port]_vars

\* C15 witness: a session set up with client_port=6000-7000 has sent a
\* datagram to port 6000, and a session set up with client_port=6000 has
\* the pair (6000, 6001).
C15_Witness ==
    \E id \in 1..Len(sessions), other \in 1..Len(sessions) :
       /\ sessions[id].rtp_port = 6000
       /\ sessions[id].rtcp_port = 7000
       /\ sent[id] # <<>>
       /\ sent[id][1].port = 6000
       /\ sessions[other].rtp_port = 6000
       /\ sessions[other].rtcp_port = 6001

\* C16 (as claimed): every request receives exactly one response, carrying
\* that request's CSeq, however the bytes of the requests are cut into
\* reads: the i-th response has the CSeq of the i-th request (the client
\* numbers its requests 1, 2, ...), and when the handler has read all the
\* client wrote and waits in recv there are as many responses as requests.
C16_OneResponsePerRequest ==
    /\ \A i \in 1..Len(replies) : replies[i] = i
    /\ (handlers[RtspConn].pc = "recv" /\ stream = <<>>)
          => Len(replies) = requests

(***************************************************************************)
(* Properties of run_stream_server and StreamMonitor                       *)
(***************************************************************************)
\* C17 (as claimed): whatever ends the attempts (camera initialisation,
\* streaming start, the server thread ending, a restart requested by the
\* monitor), run_stream_server starts at most max_restarts = 10 attempts
\* and then exits: it never counts an 11th attempt and never stands at the
\* top of its loop with 10 attempts behind it.
C17_AtMostMaxRestarts ==
    /\ supervisor.restart_count <= max_restarts
    /\ supervisor.restart_count = max_restarts => supervisor.pc # "top"

\* C18 (as claimed): after an interrupt during an attempt no further
\* attempt is started, and when the supervisor returns the monitor is
\* stopped, no camera handle is open or recording, and the server is
\* stopped.
C18_InterruptStopsEverything ==
    [][/\ supervisor.interrupted =>
             /\ supervisor'.restart_count = supervisor.restart_count
             /\ supervisor'.pc \in {"finally", "returned"}
       /\ (supervisor.interrupted /\ supervisor.pc = "finally"
             /\ supervisor'.pc = "returned") =>
             /\ ~monitor'.is_running
             /\ camera'.open = 0
             /\ ~camera'.recording
             /\ ~server'.socket
             /\ ~server'.is_running]_vars

\* The step is a health check of the attempt's monitor.
MonitorChecks == monitor.thread = "check" /\ monitor' # monitor

\* The latest three checks of monitor m were all unhealthy.
ThreeUnhealthy(m) ==
    /\ Len(m.checks) = 3
    /\ \A i \in 1..3 : m.checks[i] # "healthy"

\* C19: StreamMonitor calls the restart callback in a health check exactly
\* when that check is the third unhealthy one in a row (a healthy check in
\* between starts the count again), the call sets the restart request, and
\* a monitor calls the callback at most once in its life.
C19_CallbackAfterThreeUnhealthy ==
    [][/\ MonitorChecks =>
             /\ (monitor'.calls = monitor.calls + 1) <=> ThreeUnhealthy(monitor')
             /\ monitor'.calls \in {monitor.calls, monitor.calls + 1}
             /\ monitor'.calls > monitor.calls => restart_requested'
       /\ (~MonitorChecks /\ monitor'.thread # "none") =>
             monitor'.calls = monitor.calls
       /\ monitor'.calls <= 1
       /\ stale'.calls <= 1]_vars

\* C19 witness: the monitor called the callback once, on its third unhealthy
\* check in a row, the restart request is set and its loop has ended.
C19_Witness ==
    /\ monitor.calls = 1
    /\ monitor.thread = "done"
    /\ ThreeUnhealthy(monitor)
    /\ restart_requested

(***************************************************************************)
(* Properties of VideoRecorder.add_frame                                   *)
(***************************************************************************)
\* add_frame is called, while a recording is active, with a frame that is
\* written; motion tells whether motion is still present on it.
AddsFrame(motion) ==
    /\ is_recording
    /\ current_writer.held
    /\ \E x \in StopInputs : RecAddFrame(LiveFrame, motion, TRUE, x[1], x[2])

\* The frames left of the post-roll countdown.
Countdown(counted) == PostMotionDuration * Fps - counted

\* C20 (as claimed): while a recording is active, a frame with motion still
\* present never ends the recording and puts the post-roll countdown back to
\* fps * post_roll_seconds; a motion-absent frame takes one off it.
C20_MotionRestoresCountdown ==
    [][/\ AddsFrame(TRUE) =>
             /\ is_recording'
             /\ Countdown(post_motion_frames') = PostMotionDuration * Fps
       /\ (AddsFrame(FALSE) /\ is_recording') =>
             Countdown(post_motion_frames')
                = Countdown(post_motion_frames) - 1]_vars

(***************************************************************************)
(* Properties of VideoRecorder.start_recording and force_stop              *)
(***************************************************************************)
\* start_recording is called with the pre-roll list prebuffer and the
\* environment decides one of outcomes.
StartCalled(prebuffer, outcomes) ==
    \E o \in outcomes, dt \in 0..1 : RecStartRecording(prebuffer, o, dt)

\* C21 (as claimed): start_recording called on an Idle recorder with an
\* empty pre-roll list returns False, leaves the recorder Idle and opens no
\* sink.
C21_EmptyPrerollRejected ==
    [][(~is_recording /\ StartCalled(<<>>, StartOutcomes)) =>
          /\ ret' = FALSE
          /\ ~is_recording'
          /\ ~current_writer'.opened]_vars

\* C22 (as claimed): when the sink cannot be opened (isOpened() is False, or
\* the constructor raises), start_recording returns False, the recorder
\* stays Idle and the writer handle is released and cleared.
C22_FailedOpenKeepsNothing ==
    [][\A pre \in PrebufferInputs :
          (~is_recording /\ StartCalled(pre, {"notopened", "raise_open"})) =>
             /\ ret' = FALSE
             /\ ~is_recording'
             /\ current_writer' = NoWriter]_vars

\* C23 (as claimed): force_stop, in any reachable state, leaves the recorder
\* Idle with no open sink and with filename, start time and countdown
\* cleared, so that start_recording is not rejected afterwards.
C23_ForceStopClearsAll ==
    [][RecForceStop =>
          /\ ~is_recording'
          /\ ~StartRejected'
          /\ ~current_writer'.opened
          /\ current_filename' = <<>>
          /\ recording_start_time' = <<>>
          /\ post_motion_frames' = 0]_vars

(***************************************************************************)
(* Termination of a recording                                              *)
(***************************************************************************)
\* The pipeline keeps calling add_frame with camera frames that show no
\* motion and that the writer accepts; how the finalization ends is the
\* environment's choice.  Null frames, failing writes, stop_recording and
\* force_stop may happen in between.
DeliverQuietFrame ==
    \E x \in StopInputs : RecAddFrame(LiveFrame, FALSE, TRUE, x[1], x[2])

SpecRecLive == Init /\ [][RecNext]_vars /\ WF_vars(DeliverQuietFrame)

\* C24 (as claimed): once the recorder is Recording, and frames keep being
\* delivered without motion, the recorder eventually is Idle again with no
\* writer held, whatever null frames, failed writes or failed finalizations
\* happen on the way.
C24_RecordingTerminates ==
    is_recording ~> (~is_recording /\ ~current_writer.held)

(***************************************************************************)
(* Properties of CircularVideoBuffer.get_prebuffer_frames                  *)
(***************************************************************************)
OldestFirst(frames) ==
    \A i, j \in 1..Len(frames) : i < j => frames[i] < frames[j]

\* C25: the sequence get_prebuffer_frames returns holds exactly the buffer
\* contents at the moment of the call, oldest first, and no add_frame or
\* clear performed afterwards changes a sequence already returned.
C25_SnapshotIsPointInTimeCopy ==
    [][/\ BufferGetPrebufferFrames =>
             /\ snapshot' = buffer
             /\ OldestFirst(snapshot')
             /\ snapshot' = LastN(added, Len(snapshot'))
       /\ ((\E f \in FrameInputs : BufferAddFrame(f)) \/ BufferClear) =>
             snapshot' = snapshot]_vars

\* A full snapshot was returned, then the buffer was cleared.
C25_Witness ==
    /\ Len(snapshot) = max_frames
    /\ op = "buffer.clear"
    /\ buffer = <<>>

(***************************************************************************)
(* VideoRecorder.start_recording called from two threads.  The class has   *)
(* no lock: a thread can be preempted between any two statements.  The     *)
(* other operations (add_frame, stop_recording, force_stop) run here       *)
(* without preemption, between the steps of the calls in progress.         *)
(***************************************************************************)
InCall == {"check", "create", "isopened", "write", "set_recording", "set_times"}

Other(t) == CHOOSE u \in Threads : u # t

CallsInProgress == Cardinality({t \in Threads : callers[t].pc \in InCall})

RaceUnchanged ==
    UNCHANGED <<bufVars, detVars, hubVars, rtspVars, supVars, nalVars, longVars, stallVars, events,
                finalized, now>>

\* The call ends (return value r); the except branch runs _cleanup_recording.
Returned(t, r) ==
    [callers EXCEPT ![t].pc = "returned", ![t].ret = r, ![t].pre = <<>>]

\* A thread calls start_recording(prebuffer_frames, frame_size).
RaceCall(t, pre, outcome) ==
    /\ callers[t].pc = "idle"
    /\ sess.no + CallsInProgress < MaxSessions
    /\ outcome = "raise_write" => NonNull(pre) # <<>>
    /\ LET both == callers[Other(t)].pc \in InCall
       IN  callers' = [callers EXCEPT
                         ![t] = [pc |-> "check", ret |-> FALSE, pre |-> pre,
                                 outcome |-> outcome, opened |-> FALSE,
                                 overlap |-> both /\ ~is_recording],
                         ![Other(t)].overlap = @ \/ (both /\ ~is_recording)]
    /\ op' = "start_recording"
    /\ UNCHANGED <<recVars, ret>>
    /\ RaceUnchanged

\* line 104: if self.is_recording: return False
RaceCheck(t) ==
    /\ callers[t].pc = "check"
    /\ callers' = IF StartRejected THEN Returned(t, FALSE)
                  ELSE [callers EXCEPT ![t].pc = "create"]
    /\ UNCHANGED <<recVars, op, ret>>
    /\ RaceUnchanged

\* lines 109-116: the file name, then the VideoWriter
RaceCreate(t) ==
    /\ callers[t].pc = "create"
    /\ current_filename' = <<now>>
    /\ CASE callers[t].outcome = "raise_open" ->
              /\ current_writer' = cleanup_recording(current_writer)
              /\ callers' = Returned(t, FALSE)
         [] callers[t].outcome = "notopened" ->
              /\ current_writer' = [held |-> TRUE, opened |-> FALSE,
                                    written |-> <<>>]
              /\ callers' = [callers EXCEPT ![t].pc = "isopened"]
         [] OTHER ->
              /\ current_writer' = [held |-> TRUE, opened |-> TRUE,
                                    written |-> <<>>]
              /\ callers' = [callers EXCEPT ![t].pc = "isopened",
                                            ![t].opened = TRUE]
    /\ UNCHANGED <<is_recording, recording_start_time, post_motion_frames,
                   sess, op, ret>>
    /\ RaceUnchanged

\* line 118: if not self.current_writer.isOpened(): return False
\* (self.current_writer is None: AttributeError, the except branch)
RaceIsOpened(t) ==
    /\ callers[t].pc = "isopened"
    /\ callers' = IF current_writer.held /\ current_writer.opened
                  THEN [callers EXCEPT ![t].pc = "write"]
                  ELSE Returned(t, FALSE)
    /\ UNCHANGED <<recVars, op, ret>>
    /\ RaceUnchanged

\* lines 123-125: the pre-roll frames are written to self.current_writer
RaceWrite(t) ==
    /\ callers[t].pc = "write"
    /\ LET frames == NonNull(callers[t].pre)
       IN  IF frames = <<>>
           THEN /\ callers' = [callers EXCEPT ![t].pc = "set_recording"]
                /\ UNCHANGED current_writer
           ELSE IF ~current_writer.held \/ callers[t].outcome = "raise_write"
           THEN /\ current_writer' = cleanup_recording(current_writer)
                /\ callers' = Returned(t, FALSE)
           ELSE /\ current_writer' =
                      IF current_writer.opened
                      THEN [current_writer EXCEPT !.written = @ \o frames]
                      ELSE current_writer
                /\ callers' = [callers EXCEPT ![t].pc = "set_recording"]
    /\ UNCHANGED <<is_recording, current_filename, recording_start_time,
                   post_motion_frames, sess, op, ret>>
    /\ RaceUnchanged

\* line 127: self.is_recording = True
RaceSetRecording(t) ==
    /\ callers[t].pc = "set_recording"
    /\ is_recording' = TRUE
    /\ sess' = [no |-> sess.no + 1, motion |-> 1, quiet |-> 0,
                plain |-> TRUE, end |-> "running"]
    /\ callers' = [callers EXCEPT ![t].pc = "set_times"]
    /\ UNCHANGED <<current_writer, current_filename, recording_start_time,
                   post_motion_frames, op, ret>>
    /\ RaceUnchanged

\* lines 128-132: start time, countdown, return True
RaceSetTimes(t) ==
    /\ callers[t].pc = "set_times"
    /\ recording_start_time' = <<now>>
    /\ post_motion_frames' = 0
    /\ callers' = Returned(t, TRUE)
    /\ UNCHANGED <<is_recording, current_writer, current_filename, sess, op, ret>>
    /\ RaceUnchanged

\* The caller has its return value and goes on.
RaceReturn(t) ==
    /\ callers[t].pc = "returned"
    /\ callers' = [callers EXCEPT ![t] = NoCall]
    /\ UNCHANGED <<recVars, op, ret>>
    /\ RaceUnchanged

\* prebuffer_frames of the calls: an empty list, or one frame.
RacePrebuffers == {<<>>, <<1>>}

RaceNext ==
    \/ \E t \in Threads, pre \in RacePrebuffers, o \in StartOutcomes :
          RaceCall(t, pre, o)
    \/ \E t \in Threads : RaceCheck(t)
    \/ \E t \in Threads : RaceCreate(t)
    \/ \E t \in Threads : RaceIsOpened(t)
    \/ \E t \in Threads : RaceWrite(t)
    \/ \E t \in Threads : RaceSetRecording(t)
    \/ \E t \in Threads : RaceSetTimes(t)
    \/ \E t \in Threads : RaceReturn(t)
    \/ \E x \in StopInputs : RecAddFrame(LiveFrame, FALSE, TRUE, x[1], x[2])
    \/ \E x \in StopInputs : RecStopRecording(x[1], x[2])
    \/ RecForceStop

SpecRace == Init /\ [][RaceNext]_vars

\* Both threads called start_recording on an Idle recorder while the other
\* was inside its call, each with a writer that opens, and both have returned.
BothStartedAtOnce ==
    \A t \in Threads :
       /\ callers[t].pc = "returned"
       /\ callers[t].overlap
       /\ callers[t].outcome = "ok"

\* C26 (as claimed): of two start_recording calls made at the same time on
\* an Idle recorder exactly one returns True and exactly one writer is
\* opened; and start_recording overlapping add_frame or stop_recording
\* leaves no half-updated state: with no call in progress an Idle recorder
\* has no start time.
C26_ConcurrentStartsExclusive ==
    /\ BothStartedAtOnce =>
          /\ Cardinality({t \in Threads : callers[t].ret}) = 1
          /\ Cardinality({t \in Threads : callers[t].opened}) = 1
    /\ (CallsInProgress = 0 /\ ~is_recording) => recording_start_time = <<>>

(***************************************************************************)
(* Properties of H264StreamOutput._handle_nal_unit and add_client          *)
(***************************************************************************)
\* The datagrams session id was sent since the producer took the lock.
SentInPublish(id) ==
    {sent[id][k] : k \in (producer.base[id] + 1)..Len(sent[id])}

\* C27 (as claimed): when sending a unit to a session raised, that session
\* is out of the distribution set when the publish ends, so later units skip
\* it; every other session registered for the publish stays registered and,
\* if it is playing on a socket, was sent the same unit; and the producer is
\* back from the call with no error.
C27_FailedSendRemovesThatSessionAlone ==
    [][(ProdRelease /\ producer.failed # <<>>) =>
          /\ \A id \in Registered(producer.failed) : ~InSeq(id, clients')
          /\ \A id \in Registered(producer.snap) \ Registered(producer.failed) :
                /\ InSeq(id, clients')
                /\ (sessions[id].is_playing /\ sessions[id].rtp_socket) =>
                      \E d \in SentInPublish(id) : d.payload = producer.unit
          /\ producer'.pc = "idle"]_vars

\* The step hands a datagram to sendto, or calls sendto and it raises.
CallsSendto ==
    \/ \E id \in 1..Len(sent') : NewDatagrams(id) # {}
    \/ failures' > failures

\* C28 (as claimed): no write to a client's transport is performed while
\* the lock of the hub is held: not in the delivery loop of a publish, and
\* not in the replay of add_client, which runs under the same lock.
C28_NoTransportWriteUnderLock ==
    [][CallsSendto =>
          /\ condition = "free"
          /\ ~\E h \in Conns, ok1 \in BOOLEAN, ok2 \in BOOLEAN : HPlay(h, ok1, ok2)]_vars

\* The most recent unit of type ty the encoder has handed to write.
LatestOfType(ty) ==
    LET seen == {u \in UnitsWritten : u.type = ty}
    IN  CHOOSE u \in seen : \A v \in seen : v.id <= u.id

\* C29 (as claimed): a session that starts playing on its socket after an
\* SPS and a PPS have been seen is sent, in the step that registers it and
\* so before any other unit under every interleaving with the producer, the
\* most recently seen SPS followed by the most recently seen PPS.
C29_NewSessionGetsParameterSetsFirst ==
    [][\A h \in Conns :
          LET id == handlers[h].session
          IN  (/\ \E ok1 \in BOOLEAN, ok2 \in BOOLEAN : HPlay(h, ok1, ok2)
               /\ id # NoHandlerSession
               /\ sessions[id].rtp_socket
               /\ sent[id] = <<>>
               /\ sps # NoUnit /\ pps # NoUnit)
              => /\ Len(sent'[id]) = 2
                 /\ sent'[id][1].payload = LatestOfType(7)
                 /\ sent'[id][2].payload = LatestOfType(8)]_vars

(***************************************************************************)
(* H264StreamOutput.write at the level of bytes      (src/streamserver.py) *)
(*                                                                         *)
(* No session is registered, and no byte of the alphabet gives a unit of   *)
(* type 7 or 8 (nal_unit[0] & 0x1f is 0 or 1), so _handle_nal_unit caches  *)
(* nothing and sends nothing: what it is called with is recorded in        *)
(* dispatched.                                                             *)
(***************************************************************************)
\* b'\x00\x00\x00\x01'
start_code == <<0, 0, 0, 1>>

\* The values a byte of the stream takes.
Bytes == {0, 1}

\* The data of one call of write.
Chunks == UNION {[1..n -> Bytes] : n \in 0..MaxChunk}

\* bytes.find(start_code, start): index (from 0) of the first occurrence at
\* or after start, -1 when there is none.
find(b, start) ==
    LET hits == {i \in start..(Len(b) - 4) : SubSeq(b, i + 1, i + 4) = start_code}
    IN  IF hits = {} THEN -1
        ELSE CHOOSE i \in hits : \A j \in hits : i <= j

\* b[i:]
SliceFrom(b, i) == SubSeq(b, i + 1, Len(b))

\* Keeping two bytes.
KeepTailTwo(b) == SliceFrom(b, IF Len(b) > 2 THEN Len(b) - 2 ELSE 0)

\* self.buffer[-3:]
KeepTail(b) == SliceFrom(b, IF Len(b) > 3 THEN Len(b) - 3 ELSE 0)

\* _process_nal_units on buffer b; out collects the units given to
\* _handle_nal_unit.  The result is the buffer left and the units.
RECURSIVE process_nal_units(_, _)
process_nal_units(b, out) ==
    IF Len(b) < 4 THEN [buffer |-> b, units |-> out]
    ELSE LET start_code_pos == find(b, 0)
         IN  IF start_code_pos = -1
             THEN [buffer |-> KeepTail(b), units |-> out]
             ELSE IF start_code_pos > 0
             THEN process_nal_units(SliceFrom(b, start_code_pos), out)
             ELSE LET next_start == find(b, 4)
                  IN  IF next_start = -1
                      THEN [buffer |-> b, units |-> out]
                      ELSE LET nal_unit == SubSeq(b, 5, next_start)
                           IN  process_nal_units(
                                  SliceFrom(b, next_start),
                                  IF nal_unit # <<>> THEN Append(out, nal_unit)
                                  ELSE out)

\* write(data): self.buffer += data, _process_nal_units(), return len(data)
Write(data) ==
    /\ Len(fed) + Len(data) <= MaxStream
    /\ LET r == process_nal_units(h264_buffer \o data, <<>>)
       IN  /\ h264_buffer' = r.buffer
           /\ dispatched' = dispatched \o r.units
    /\ fed' = fed \o data
    /\ op' = "write"
    /\ ret' = Len(data)
    /\ UNCHANGED <<bufVars, recVars, detVars, hubVars, rtspVars, supVars, raceVars, longVars, stallVars>>

NalNext == \E data \in Chunks : Write(data)

SpecNal == Init /\ [][NalNext]_vars

(***************************************************************************)
(* Properties of the NAL unit reassembly                                   *)
(***************************************************************************)
\* Positions (from 0) of the start codes that have arrived whole in s.
StartCodesIn(s) ==
    {i \in 0..(Len(s) - 4) : SubSeq(s, i + 1, i + 4) = start_code}

\* The non-empty byte runs between consecutive start codes of s, in order,
\* looking at the start codes at or after position from.
RECURSIVE RunsBetween(_, _)
RunsBetween(s, from) ==
    LET here  == {i \in StartCodesIn(s) : i >= from}
    IN  IF here = {} THEN <<>>
        ELSE LET p     == CHOOSE i \in here : \A j \in here : i <= j
                 later == {i \in here : i > p}
             IN  IF later = {} THEN <<>>
                 ELSE LET q   == CHOOSE i \in later : \A j \in later : i <= j
                          run == SubSeq(s, p + 5, q)
                      IN  (IF run # <<>> THEN <<run>> ELSE <<>>)
                             \o RunsBetween(s, q)

\* C30: whatever bytes write was given and however they were cut into
\* chunks, the units dispatched so far are exactly the non-empty byte runs
\* between consecutive start codes of the stream fed so far, in order and
\* once each: bytes before the first start code are in no unit, and a run
\* is dispatched when, and only when, the start code after it has arrived.
C30_UnitsAreRunsBetweenStartCodes ==
    dispatched = RunsBetween(fed, 0)

\* C30 witness: after a byte that is in no unit, two units were dispatched,
\* one of them holding a zero byte; the start code that ends the second
\* one arrived cut, its last byte in a write of its own.
C30_Witness ==
    /\ Len(dispatched) = 2
    /\ fed[1] = 1
    /\ \E i \in 1..2 : \E k \in 1..Len(dispatched[i]) : dispatched[i][k] = 0
    /\ op = "write"
    /\ ret = 1
    /\ SubSeq(fed, Len(fed) - 3, Len(fed)) = start_code

(***************************************************************************)
(* One RTSPSession over a long stream                 (src/streamserver.py)*)
(*                                                                         *)
(* The session is registered and playing, sendto works, and write hands    *)
(* units to _handle_nal_unit; one step is a run of n units in a row.       *)
(***************************************************************************)
\* Lengths of the runs.
Runs == {1000, 10000, 100000, 1000000}

\* SETUP and PLAY: RTSPSession.__init__ (timestamp = 0), sockets created,
\* is_playing = True, add_client with no parameter set cached.
LongPlay(seq0) ==
    /\ long_session.pc = "none"
    /\ long_session' = [NoLongSession EXCEPT !.pc = "playing",
                                             !.sequence_number = seq0]
    /\ op' = "play"
    /\ UNCHANGED <<bufVars, recVars, detVars, hubVars, rtspVars, supVars,
                   raceVars, nalVars, stallVars, ret>>

\* Units of a run of n for which _create_rtp_packet builds the header: the
\* k-th datagram of the session carries timestamp 3600 * (k - 1).
PackedOfRun(units, n) ==
    IF TicksFit(units + n - 1) THEN n
    ELSE IF TicksFit(units) THEN MaxTimestampTicks + 1 - units
    ELSE 0

\* n calls of _handle_nal_unit: send_h264_data per unit; when struct.pack
\* raises, the session is noted in clients_to_remove and removed.
LongPublish(n) ==
    /\ long_session.pc = "playing"
    /\ LET k == PackedOfRun(long_session.units, n)
       IN  long_session' =
              [long_session EXCEPT
                 !.units = @ + k,
                 !.sequence_number = (@ + k) % SeqModulus,
                 !.pack_failed = k < n,
                 !.pc = IF k < n THEN "removed" ELSE "playing"]
    /\ op' = "write"
    /\ UNCHANGED <<bufVars, recVars, detVars, hubVars, rtspVars, supVars,
                   raceVars, nalVars, stallVars, ret>>

LongNext ==
    \/ \E d \in SessionDraws : LongPlay(d[1])
    \/ \E n \in Runs : LongPublish(n)

SpecLong == Init /\ [][LongNext]_vars

(***************************************************************************)
(* Properties of the RTP timestamp                                         *)
(***************************************************************************)
\* C31 (as claimed): however many units a session has been sent, the
\* timestamp of its next datagram (3600 per datagram sent) fits the 32-bit
\* field and building the header has not failed.
C31_TimestampAlwaysFits ==
    /\ ~long_session.pack_failed
    /\ long_session.pc = "playing" => TicksFit(long_session.units)

(***************************************************************************)
(* RTSPHandler.handle_request and malformed requests  (src/streamserver.py)*)
(*                                                                         *)
(* The client of the connection sends well-formed OPTIONS and SETUP        *)
(* requests and malformed ones; recv returns one request at a time.        *)
(***************************************************************************)
\* A value int() raises ValueError on ("abc").
NotANumber == [client_port |-> FALSE, part |-> <<0>>, numeric |-> FALSE]

\* client_port=abc
BadClientPort == [client_port |-> TRUE, part |-> <<0>>, numeric |-> FALSE]

MalformedKinds == {"empty_request_line", "no_cseq", "bad_cseq", "bad_port"}

\* The text of the n-th request of the client when it is malformed.
MalformedText(kind, n) ==
    CASE kind = "empty_request_line" ->
            <<BlankLine, HeaderLine("cseq", Number(n)), BlankLine>>
      [] kind = "no_cseq" ->
            <<RequestLine("OPTIONS"), BlankLine>>
      [] kind = "bad_cseq" ->
            <<RequestLine("OPTIONS"), HeaderLine("cseq", NotANumber),
              BlankLine>>
      [] kind = "bad_port" ->
            <<RequestLine("SETUP"), HeaderLine("cseq", Number(n)),
              HeaderLine("transport", BadClientPort), BlankLine>>

ClientSendMalformed(kind) ==
    /\ requests < MaxRequests
    /\ handlers[RtspConn].pc # "closed"
    /\ requests' = requests + 1
    /\ stream' = stream \o MalformedText(kind, requests + 1)
    /\ UNCHANGED <<cseq, response, replies, hubVars, bufVars, recVars,
                   detVars, supVars, raceVars, nalVars, longVars, stallVars, op, ret>>

\* The lines of the first request that recv has not returned yet: up to its
\* closing empty line.
FirstRequestLen ==
    IF stream = <<>> THEN 0
    ELSE LET ends == {i \in 2..Len(stream) : stream[i] = BlankLine}
         IN  CHOOSE i \in ends : \A j \in ends : i <= j

\* An exception leaves the try block of handle_request: nothing is sent,
\* the finally clause is next.
HRaises(h) ==
    /\ handlers[h].pc = "recv"
    /\ handlers' = [handlers EXCEPT ![h].pc = "cleanup"]
    /\ UNCHANGED <<clients, condition, sps, pps, sessions, producer, sent,
                   torn, dropped, failures, bufVars, recVars, detVars,
                   op, ret>>

\* Line 373 raises: self.cseq keeps its value and no branch is taken.
RtspCSeqRaises(n) ==
    /\ n \in 1..Len(stream)
    /\ CSeqRaises(SubSeq(stream, 1, n))
    /\ stream' = SubSeq(stream, n + 1, Len(stream))
    /\ HRaises(RtspConn)
    /\ UNCHANGED <<cseq, response, replies, requests, supVars, raceVars,
                   nalVars, longVars, stallVars>>

\* _handle_setup raises at line 442 or 444, before a session is created.
RtspSetupRaises(n) ==
    /\ Receive(n, "SETUP")
    /\ PortRaises(Parse(SubSeq(stream, 1, n)).transport)
    /\ HRaises(RtspConn)
    /\ UNCHANGED <<response, replies>>

MalNext ==
    \/ \E m \in {"OPTIONS", "SETUP"} : ClientSend(m, NoTransport)
    \/ \E k \in MalformedKinds : ClientSendMalformed(k)
    \/ RtspOptions(FirstRequestLen)
    \/ \E d \in RtspSessionDraws, o \in RtspSetupOutcomes :
          RtspSetup(FirstRequestLen, d[1], d[2], o)
    \/ RtspNotImplemented(FirstRequestLen)
    \/ RtspCSeqRaises(FirstRequestLen)
    \/ RtspSetupRaises(FirstRequestLen)
    \/ RtspDisconnect
    \/ RtspCleanup

SpecMal == Init /\ [][MalNext]_vars

\* What handle_request is to take for malformed in the lines it parses: no
\* method at the start of the request line, no CSeq header, a CSeq that is
\* no number, a client_port that is no number.
Malformed(data) ==
    LET lines == Lines(data)
    IN  \/ lines[1].word \notin ClientMethods
        \/ \A i \in 2..Len(lines) : lines[i].key # "cseq"
        \/ CSeqRaises(data)
        \/ PortRaises(HeaderGet(lines, "transport", NoTransport))

\* C32 (as claimed): a pass of handle_request that reads a malformed
\* request sends a response with an error status, and the handler goes on
\* to the next request instead of ending by an exception.
C32_MalformedAnsweredWithError ==
    [][(Reads(FirstRequestLen) /\ Malformed(SubSeq(stream, 1, FirstRequestLen)))
          => /\ Len(replies') = Len(replies) + 1
             /\ response'.code >= 400
             /\ handlers'[RtspConn].pc = "recv"]_vars

(***************************************************************************)
(* Properties of the end of an RTSPHandler and of a failed SETUP           *)
(***************************************************************************)
\* The sessions created by the SETUP requests of connection h.
SessionsOf(h) == {id \in 1..Len(sessions) : sessions[id].conn = h}

\* C33 (as claimed): when the handler of a connection has ended, no session
\* created on that connection is in the distribution set and both UDP
\* sockets of each of them are closed, the sessions that a later SETUP
\* replaced included.
C33_EndedHandlerReleasesSessions ==
    \A h \in Conns :
       handlers[h].pc = "closed" =>
          \A id \in SessionsOf(h) :
             /\ ~InSeq(id, clients)
             /\ ~sessions[id].rtp_socket
             /\ ~sessions[id].rtcp_socket

\* The SETUP step of h whose socket allocation fails.
FailedSetup(h) ==
    \E tr \in HubTransports, d \in SessionDraws :
       HSetup(h, tr, d[1], d[2], "fail_rtp")

\* C34 (as claimed): a SETUP that fails to allocate its sockets answers 500
\* and keeps no more session than the connection had before it (none, in
\* Init); the PLAY that follows the 500 is answered 455 and registers nothing
\* in the distribution set.
C34_FailedSetupStaysInit ==
    [][\A h \in Conns :
          /\ FailedSetup(h) =>
                /\ handlers'[h].resp = 500
                /\ handlers'[h].session = handlers[h].session
          /\ (/\ handlers[h].resp = 500
              /\ \E ok1 \in BOOLEAN, ok2 \in BOOLEAN : HPlay(h, ok1, ok2)) =>
                /\ handlers'[h].resp = 455
                /\ clients' = clients]_vars

\* C35 (as claimed): when the next attempt begins, everything the attempt
\* before it acquired has been released: the monitor is stopped, no camera
\* handle is open and the camera is not recording, and the socket of the
\* RTSP server is closed.
C35_AttemptReleasesEverything ==
    [][(SupBegin /\ supervisor.restart_count > 0) =>
          /\ ~monitor.is_running
          /\ camera.open = 0
          /\ ~camera.recording
          /\ ~server.socket]_vars

(***************************************************************************)
(* A producer that stops publishing (H264StreamOutput.check_stream_health, *)
(* StreamMonitor._monitor_loop, run_stream_server)                         *)
(***************************************************************************)
\* The attempts followed when a producer stalls.
MaxStallAttempts == 2

\* The output of the current attempt has had no frame for longer than
\* max_frame_age, and gets none any more.
Stalled == stalled > 0 /\ stalled = supervisor.restart_count

\* The moment the last frame of the attempt's output becomes older than
\* max_frame_age while the monitor of the attempt runs.
ProducerStalls ==
    /\ supervisor.pc = "serving"
    /\ monitor.is_running
    /\ ~Stalled
    /\ supervisor.restart_count < MaxStallAttempts
    /\ stalled' = supervisor.restart_count
    /\ UNCHANGED <<bufVars, recVars, detVars, hubVars, rtspVars, supVars,
                   raceVars, nalVars, longVars, op, ret>>

\* check_stream_health on a stalled output returns False ("frame_age >
\* max_frame_age"); the check may also raise.
StallCheck(outcome) ==
    /\ Stalled => outcome # "healthy"
    /\ MonCheck(outcome)

StallBegin ==
    /\ supervisor.restart_count < MaxStallAttempts
    /\ SupBegin

\* Attempts whose camera initialisation and streaming start work (the
\* monitor is started only then); the server thread may fail to bind, the
\* supervisor may be interrupted, and a monitor of an earlier attempt may
\* still run.
StallNext ==
    \/ StallBegin
    \/ SupInitCamera("ok")
    \/ SupCreateOutput
    \/ SupStartStreaming(TRUE)
    \/ SupStartServer
    \/ \E ok \in BOOLEAN : ServerBind(ok)
    \/ SupServeEnds
    \/ SupInterrupt
    \/ SupFinally
    \/ MonWake
    \/ \E o \in CheckOutcomes : StallCheck(o)
    \/ StaleWake
    \/ \E o \in CheckOutcomes : StaleCheck(o)
    \/ ProducerStalls

\* Scheduling: the monitor thread's sleep returns and its check runs; the
\* supervisor's wait loop polls every second, and its finally block, the
\* top of its loop and the steps that set an attempt up follow one another
\* without waiting for anything; the server thread started for an attempt
\* runs to its bind.
StallFairness ==
    /\ WF_vars(MonWake)
    /\ WF_vars(\E o \in CheckOutcomes : StallCheck(o))
    /\ WF_vars(SupServeEnds)
    /\ WF_vars(SupFinally)
    /\ WF_vars(StallBegin)
    /\ WF_vars(SupInitCamera("ok"))
    /\ WF_vars(SupCreateOutput)
    /\ WF_vars(SupStartStreaming(TRUE))
    /\ WF_vars(SupStartServer)
    /\ WF_vars(\E bound \in BOOLEAN : ServerBind(bound))

SpecStall == Init /\ [][StallNext]_vars /\ StallFairness

MaxDropAttempts == 2

\* The server of the attempt has accepted the connections of Conns: its
\* thread reached the accept loop.
Served == server.thread \in {"listening", "dead"}

\* H264StreamOutput.close: the list of clients is cleared under the lock.
OutputClose ==
    /\ condition = "free"
    /\ clients' = <<>>
    /\ UNCHANGED <<condition, sps, pps, sessions, handlers, producer, sent,
                   torn, dropped, failures>>

\* The finally block of an attempt with clients.  picam2.stop_recording()
\* stops the FileOutput wrapped around the stream output; whether that calls
\* close() on the stream output is the library's choice.
DropFinally(closes) ==
    /\ SupFinallyBody
    /\ IF closes /\ supervisor.picam2 THEN OutputClose
       ELSE UNCHANGED hubVars

\* A step of a connection handler of the attempt; serving a connection
\* needs nothing from the server that accepted it.
DropHandler(A) ==
    /\ Served
    /\ A
    /\ UNCHANGED <<rtspVars, supVars, raceVars, nalVars, longVars, stallVars>>

DropNext ==
    \/ SupBegin /\ supervisor.restart_count < MaxDropAttempts
    \/ SupInitCamera("ok") /\ supervisor.restart_count = 1
    \/ SupCreateOutput
    \/ SupStartStreaming(TRUE)
    \/ SupStartServer
    \/ ServerBind(TRUE)
    \/ MonWake
    \/ \E o \in CheckOutcomes : MonCheck(o)
    \/ SupServeEnds
    \/ \E closes \in BOOLEAN : DropFinally(closes)
    \/ DropHandler(\E h \in Conns, d \in SessionDraws :
                      HSetup(h, NoTransport, d[1], d[2], "ok"))
    \/ DropHandler(\E h \in Conns : HPlay(h, TRUE, TRUE))
    \/ DropHandler(\E h \in Conns : HTeardown(h))
    \/ DropHandler(\E h \in Conns : HTeardownRemove(h))
    \/ DropHandler(\E h \in Conns : HDisconnect(h))
    \/ DropHandler(\E h \in Conns : HCleanup(h))

SpecDrop == Init /\ [][DropNext]_vars

\* The attempt, whose server had accepted its clients, has been torn down
\* after a restart request.
TornDownForRestart ==
    /\ supervisor.restart_count >= 1
    /\ supervisor.pc = "top"
    /\ restart_requested
    /\ Served

\* C37 (as claimed): once an attempt has been torn down for a restart
\* request, the connection of every RTSP client of that attempt is closed
\* and no session is left in the distribution set of its stream output.
C37_TeardownDropsClients ==
    TornDownForRestart =>
       /\ \A h \in Conns : handlers[h].pc = "closed"
       /\ clients = <<>>

(***************************************************************************)
(* Bounded retries inside an attempt (run_stream_server)                   *)
(***************************************************************************)
\* A try of initialize_camera, or of start_camera_streaming, that fails.
CameraTryFails == \E o \in CameraOutcomes \ {"ok"} : SupInitCamera(o)

StreamingTryFails == SupStartStreaming(FALSE)

\* C38: in one attempt initialize_camera is tried at most 3 times and
\* start_camera_streaming at most 3 times; a failed try before the third is
\* followed by another try, the third failed try raises CameraError; the
\* supervisor then ends the attempt, which is counted in restart_count, and
\* leaves its loop exactly when restart_count has reached max_restarts,
\* else it starts the next attempt.
C38_BoundedRetriesThenCameraError ==
    [][/\ supervisor'.camera_retry_count <= max_camera_retries
       /\ supervisor'.streaming_retry_count <= max_streaming_retries
       /\ CameraTryFails =>
             /\ supervisor'.camera_retry_count
                   = supervisor.camera_retry_count + 1
             /\ supervisor'.pc =
                   IF supervisor'.camera_retry_count = max_camera_retries
                   THEN "camera_error" ELSE "camera"
       /\ StreamingTryFails =>
             /\ supervisor'.streaming_retry_count
                   = supervisor.streaming_retry_count + 1
             /\ supervisor'.pc =
                   IF supervisor'.streaming_retry_count = max_streaming_retries
                   THEN "camera_error" ELSE "streaming"
       /\ (supervisor.pc = "camera_error" /\ supervisor' # supervisor) =>
             /\ supervisor'.pc = "finally"
             /\ supervisor'.restart_count = supervisor.restart_count
             /\ supervisor.restart_count >= 1
             /\ supervisor'.leaving
                   = (supervisor.restart_count >= max_restarts)
       /\ (supervisor.pc = "finally" /\ supervisor'.pc # "finally") =>
             /\ supervisor'.pc =
                   IF supervisor.leaving THEN "returned" ELSE "top"
             /\ supervisor'.restart_count = supervisor.restart_count
       /\ (supervisor.pc = "top" /\ supervisor'.pc # "top") =>
             /\ supervisor'.restart_count = supervisor.restart_count + 1
             /\ supervisor'.camera_retry_count = 0
             /\ supervisor'.streaming_retry_count = 0]_vars

\* C38 witness: the supervisor has returned, without an interrupt, after the
\* third try of start_camera_streaming failed in attempt max_restarts.
C38_Witness ==
    /\ supervisor.pc = "returned"
    /\ ~supervisor.interrupted
    /\ supervisor.restart_count = max_restarts
    /\ supervisor.camera_retry_count = 1
    /\ supervisor.streaming_retry_count = max_streaming_retries

(***************************************************************************)
(* A stopped monitor (StreamMonitor.stop_monitoring, _monitor_loop)        *)
(***************************************************************************)
\* C39 (as claimed): a health check made by a monitor on which
\* stop_monitoring has been called, be it the monitor of the latest attempt
\* or one of an attempt before it, never calls the restart callback and
\* never sets the restart request.
C39_StoppedMonitorNeverCallsBack ==
    [][/\ (monitor.stopped /\ \E o \in CheckOutcomes : MonCheck(o)) =>
             /\ monitor'.calls = monitor.calls
             /\ restart_requested' = restart_requested
       /\ (stale.stopped /\ \E o \in CheckOutcomes : StaleCheck(o)) =>
             /\ stale'.calls = stale.calls
             /\ restart_requested' = restart_requested]_vars

(***************************************************************************)
(* The recorder's writer and its is_recording flag                         *)
(***************************************************************************)
\* C40 (as claimed): in every reachable state of the recorder it holds an
\* open writer exactly when is_recording is True.
C40_WriterIffRecording ==
    is_recording <=> (current_writer.held /\ current_writer.opened)

====
